---- MODULE Spec2Model ----
(***************************************************************************)
(* Model of the Exodia Contagion macro engine (src/src/main.rs,            *)
(* src/src/config.rs): the four atomic flags of State, the input           *)
(* monitoring loop of run_macro, background_app_check, contagion_loop with *)
(* execute_contagion_sequence, and execute_rapid_click.                    *)
(*                                                                         *)
(* Every load and store of an AtomicBool that another thread can write is  *)
(* a step of its own, so the interleavings of the threads are the ones the *)
(* program has.                                                            *)
(***************************************************************************)
EXTENDS Naturals, Sequences, FiniteSets

\* --------------------------------------------------------------- bounds
\* Number of contagion_loop threads that can be alive at once in the model.
MaxExec == 2

\* Largest rapid_fire_duration_ms a configuration of the model holds.
MaxDurationMs == 2

\* Largest rapid_click_count a configuration of the model holds.
MaxClickCount == 2

\* Largest time, in ms, one pass of the rapid-fire loop takes beyond its
\* precise_sleep (the two injected events and the loop overhead).
MaxJitterMs == 1

\* Number of execute_rapid_click threads that can be alive at once in the model.
MaxBurst == 2

\* The number of binding fields captured in a run of the capture thread.
MaxCaptures == 1

\* Largest duration, in ms, passed to precise_sleep.
MaxSleepMs == 42

\* Ticks of the clock per millisecond.
TicksPerMs == 2

\* Largest time, in ticks, thread::sleep takes beyond the time asked for.
MaxOversleep == 2

\* ------------------------------------------------------ program constants
\* precise_sleep: durations of more than this many ms start with thread::sleep.
BusyWaitLimitMs == 40

\* precise_sleep: the ms left to the busy-wait after thread::sleep.
CompensationMs == 20

\* Length of device_query's MouseState.button_pressed (the indices that
\* BUTTON_LOOKUP covers).
MouseLen == 10

VARIABLES
    \* struct State
    running, macro_enabled, warframe_active, rapid_clicking,
    \* Arc<Mutex<SharedConfig>>
    config,
    \* the devices and the window system (external)
    foreground,          \* what is_warframe_active() returns now
    keysDown,            \* device_state.get_keys(), as a set of Keycodes
    mouseDown,           \* the indices i with mouse.button_pressed[i]
    \* background_app_check
    mon_pc, last_state, current_state,
    \* input monitoring loop of run_macro
    poll_pc, poll_keys, poll_mouse, poll_cfg,
    last_macro_state, last_rapid_click_state,
    \* contagion_loop threads and execute_rapid_click threads
    exec, burst,
    \* history, written by no program step's guard
    inactive_iters,      \* consecutive finished monitor iterations that probed false (capped)
    trigger_hist,        \* since both gates last opened: "none" = no trigger step yet,
                         \* "pressed" = a press edge was seen and its release not yet,
                         \* "tracked" = otherwise
    toggle_hist,         \* the F11 key: "up", "down" = pressed and not yet acted on,
                         \* "flipped" = this press has flipped macro_enabled
    rapid_hist,          \* the rapid-click key: "up", "down" = pressed and not yet looked
                         \* at, "spawned" = this press has spawned a burst, "ignored" =
                         \* this press was looked at while macro_enabled was false,
                         \* "reset" = the trackers were reset since one of the two
    held_hist,           \* the sequence trigger while it is held down: "none" = not
                         \* looked at yet, "started" = the trigger step started a
                         \* sequence for this press, "ignored" = it first saw this
                         \* press with running true or macro_enabled false,
                         \* "reset_started", "reset_ignored" = the trackers were
                         \* reset since, "restarted" = a sequence was started after
                         \* such a reset
    \* what is_warframe_active() has to work with (external)
    probe_env,
    \* gui.rs: Arc<Mutex<CaptureTarget>> and the key capture thread
    capture_target, cap,
    \* the Mutex of Arc<Mutex<SharedConfig>> and each task's place among the
    \* statements that lock it or wait
    cfg_lock, lk,
    \* the Mutex of Arc<Mutex<CaptureTarget>>: the task that holds its guard
    target_lock,
    \* a call of precise_sleep
    ps,
    \* a call of SharedConfig::emote_preparation_delay
    emote

stateVars == <<running, macro_enabled, warframe_active, rapid_clicking>>
envVars   == <<foreground, keysDown, mouseDown>>
monVars   == <<mon_pc, last_state, current_state>>
pollVars  == <<poll_pc, poll_keys, poll_mouse, poll_cfg, last_macro_state, last_rapid_click_state>>
histVars  == <<inactive_iters, trigger_hist, toggle_hist, rapid_hist, held_hist>>
auxVars   == <<probe_env, capture_target, cap, cfg_lock, lk, target_lock, ps, emote>>
vars      == <<stateVars, config, envVars, monVars, pollVars, exec, burst, histVars, auxVars>>

\* ================================================================ config.rs
\* A String is a sequence of one-character strings.
LowerLetters == <<"a","b","c","d","e","f","g","h","i","j","k","l","m",
                  "n","o","p","q","r","s","t","u","v","w","x","y","z">>

UpperLetters == <<"A","B","C","D","E","F","G","H","I","J","K","L","M",
                  "N","O","P","Q","R","S","T","U","V","W","X","Y","Z">>

Digits == <<"0","1","2","3","4","5","6","7","8","9">>

InSeq(x, q) == \E i \in 1..Len(q) : q[i] = x

\* char::to_uppercase on the characters of the model (ASCII).
UpperChar(c) ==
    IF InSeq(c, LowerLetters)
    THEN UpperLetters[CHOOSE i \in 1..Len(LowerLetters) : LowerLetters[i] = c]
    ELSE c

\* A conversion that leaves the letter case as it is.
ToUppercaseIdentity(s) == s

\* str::to_uppercase
to_uppercase(s) == [ i \in 1..Len(s) |-> UpperChar(s[i]) ]

KeycodePrefix == <<"K","E","Y","C","O","D","E",":",":">>

\* The arms of the match in keycode_from_string that name a key: the
\* Keycode for an upper-case name, "none" when no arm matches.
KeycodeTable(u) ==
    CASE u = <<"S","P","A","C","E">> -> "Space"
      [] Len(u) = 1 /\ InSeq(u[1], UpperLetters) -> u[1]
      [] Len(u) = 1 /\ InSeq(u[1], Digits) -> "Key" \o u[1]
      [] Len(u) = 2 /\ u[1] = "F" /\ InSeq(u[2], Digits) /\ u[2] # "0" -> "F" \o u[2]
      [] u \in { <<"F","1","0">>, <<"F","1","1">>, <<"F","1","2">> } -> "F1" \o u[3]
      [] u \in { <<".">>, <<"P","E","R","I","O","D">>, <<"D","O","T">> } -> "Dot"
      [] OTHER -> "none"

\* SharedConfig::keycode_from_string on an already upper-cased string; the
\* recursive call of the source upper-cases an upper-case string again.
RECURSIVE KeycodeFromUpper(_)
KeycodeFromUpper(u) ==
    IF KeycodeTable(u) # "none" THEN KeycodeTable(u)
    ELSE IF Len(u) >= Len(KeycodePrefix) /\ SubSeq(u, 1, Len(KeycodePrefix)) = KeycodePrefix
         THEN KeycodeFromUpper(SubSeq(u, Len(KeycodePrefix) + 1, Len(u)))
         ELSE "E"

\* SharedConfig::keycode_from_string
keycode_from_string(s) == KeycodeFromUpper(to_uppercase(s))

\* SharedConfig::to_keybinds
to_keybinds(c) ==
    [ melee        |-> keycode_from_string(c.melee_key),
      jump         |-> keycode_from_string(c.jump_key),
      aim          |-> c.aim_button,
      fire         |-> c.fire_button,
      emote        |-> keycode_from_string(c.emote_key),
      macro_button |-> c.macro_button,
      macro_alt    |-> IF c.enable_macro_alt THEN <<c.macro_alt_button>> ELSE <<>>,
      rapid_click  |-> keycode_from_string(c.rapid_click_key) ]

\* The bindings of SharedConfig::default().
DefaultBindings ==
    [ melee_key        |-> <<"E">>,
      jump_key         |-> <<"S","p","a","c","e">>,
      emote_key        |-> <<".">>,
      rapid_click_key  |-> <<"J">>,
      aim_button       |-> 2,
      fire_button      |-> 1,
      macro_button     |-> 8,
      enable_macro_alt |-> TRUE,
      macro_alt_button |-> 9 ]

\* A second set of bindings, as the GUI's capture thread can store them.
OtherBindings ==
    [ melee_key        |-> <<"q">>,
      jump_key         |-> <<"S","p","a","c","e">>,
      emote_key        |-> <<".">>,
      rapid_click_key  |-> <<"J">>,
      aim_button       |-> 3,
      fire_button      |-> 1,
      macro_button     |-> 8,
      enable_macro_alt |-> TRUE,
      macro_alt_button |-> 9 ]

\* SharedConfig with the timing fields that decide control flow; the model
\* scales the durations down (the default rapid_fire_duration_ms is 230).
MakeConfig(b, duration, delay, count) ==
    [ melee_key        |-> b.melee_key,
      jump_key         |-> b.jump_key,
      emote_key        |-> b.emote_key,
      rapid_click_key  |-> b.rapid_click_key,
      aim_button       |-> b.aim_button,
      fire_button      |-> b.fire_button,
      macro_button     |-> b.macro_button,
      enable_macro_alt |-> b.enable_macro_alt,
      macro_alt_button |-> b.macro_alt_button,
      rapid_fire_duration_ms    |-> duration,
      rapid_fire_click_delay_ms |-> delay,
      rapid_click_count         |-> count ]

\* The configurations of the model: both sets of bindings with every
\* duration and count inside the bounds; the click delay is at least 1 ms,
\* as the GUI's slider keeps it.
Configs ==
    { MakeConfig(b, d, 1, n) :
        b \in {DefaultBindings, OtherBindings}, d \in 0..MaxDurationMs, n \in 0..MaxClickCount }

\* The configurations a followed contagion_loop thread runs under: the click
\* count is not read by it.
SeqConfigs ==
    { MakeConfig(b, d, 1, 1) : b \in {DefaultBindings, OtherBindings}, d \in 0..MaxDurationMs }

\* The configurations a rapid-click burst runs under.
BurstConfigs == { MakeConfig(DefaultBindings, 1, 1, n) : n \in 0..MaxClickCount }

\* Strings a key binding can hold, each with the Keycode the match of
\* keycode_from_string (config.rs lines 129-188) gives for it: names of the
\* table in several letter cases, names behind one or two "Keycode::"
\* prefixes, and strings that are in no arm.
KeyCases ==
    { <<<<"E">>, "E">>,
      <<<<"e">>, "E">>,
      <<<<"q">>, "Q">>,
      <<<<"Q">>, "Q">>,
      <<<<"s","p","a","c","e">>, "Space">>,
      <<<<"S","p","A","c","E">>, "Space">>,
      <<<<".">>, "Dot">>,
      <<<<"p","e","r","i","o","d">>, "Dot">>,
      <<<<"D","o","t">>, "Dot">>,
      <<<<"5">>, "Key5">>,
      <<<<"f","1">>, "F1">>,
      <<<<"F","1","1">>, "F11">>,
      <<<<"f","1","2">>, "F12">>,
      <<<<"K","e","y","c","o","d","e",":",":","Q">>, "Q">>,
      <<<<"k","e","y","c","o","d","e",":",":","s","p","a","c","e">>, "Space">>,
      <<<<"K","e","y","c","o","d","e",":",":","K","e","y","c","o","d","e",":",":","j">>, "J">>,
      <<<<"K","e","y","c","o","d","e",":",":">>, "E">>,
      <<<<>>, "E">>,
      <<<<"z","z">>, "E">>,
      <<<<"L","S","h","i","f","t">>, "E">>,
      <<<<"K","e","y","1">>, "E">>,
      <<<<"F","1","3">>, "E">>,
      <<<<"F","0">>, "E">>,
      <<<<"K","e","y","c","o","d","e",":",":","L","S","h","i","f","t">>, "E">>,
      <<<<" ","q">>, "E">> }

\* The configuration the coordination specification runs under.
BaseConfig == MakeConfig(DefaultBindings, 1, 1, 1)

\* The default configuration with each of these strings as the melee key.
KeyConfigs == { [BaseConfig EXCEPT !.melee_key = k[1]] : k \in KeyCases }

\* ================================================================== main.rs
\* PrecomputedKeys::from_keybinds; an enigo::Key is "Space" or <<"Unicode", c>>.
from_keybinds(kb) ==
    [ jump  |-> IF kb.jump = "Space" THEN <<"Key", "Space">> ELSE <<"Unicode", " ">>,
      melee |-> IF kb.melee = "E" THEN <<"Unicode", "e">> ELSE <<"Unicode", " ">>,
      emote |-> IF kb.emote = "Dot" THEN <<"Unicode", ".">> ELSE <<"Unicode", " ">>,
      rapid_click |-> IF kb.rapid_click = "J" THEN <<"Unicode", "j">> ELSE <<"Unicode", " ">> ]

\* BUTTON_LOOKUP, index 0 first; "None" for None.
BUTTON_LOOKUP ==
    <<"None", "Left", "Right", "Middle", "None", "None", "None", "None", "Left", "Left">>

\* button_from_index
button_from_index(idx) ==
    IF idx = 8 THEN <<"Button", "Left">>
    ELSE IF idx = 9 THEN <<"Button", "Left">>
    ELSE IF idx < Len(BUTTON_LOOKUP) /\ BUTTON_LOOKUP[idx + 1] # "None"
         THEN <<"Button", BUTTON_LOOKUP[idx + 1]>>
         ELSE <<"Button", "Left">>

\* The inputs one loop iteration of contagion_loop injects, from its snapshot
\* (lines 386-391 and 401-404).
Inputs(c) ==
    [ jump  |-> from_keybinds(to_keybinds(c)).jump,
      melee |-> from_keybinds(to_keybinds(c)).melee,
      emote |-> from_keybinds(to_keybinds(c)).emote,
      aim   |-> button_from_index(to_keybinds(c).aim),
      fire  |-> button_from_index(to_keybinds(c).fire) ]

\* Inputs, evaluated once for every configuration of the model.
PrecomputedInputs == [ c \in Configs |-> Inputs(c) ]

\* macro_pressed of the input monitoring loop, for the sampled buttons.
MacroPressed(kb, mouse) ==
    \/ (kb.macro_button < MouseLen /\ kb.macro_button \in mouse)
    \/ (kb.macro_alt # <<>> /\ kb.macro_alt[1] < MouseLen /\ kb.macro_alt[1] \in mouse)

\* --------------------------------------------------------------- threads
Execs == 1..MaxExec

Bursts == 1..MaxBurst

\* A slot no thread runs in.
IdleExec ==
    [ pc |-> "idle", cfg |-> <<>>, ip |-> 1, elapsed |-> 0, held |-> {}, log |-> <<>>,
      staged |-> FALSE ]

IdleBurst == [ pc |-> "idle", cfg |-> <<>>, i |-> 0, clicks |-> 0, read_false |-> FALSE ]

Alive(e) == exec[e].pc # "idle"

BurstAlive(b) == burst[b].pc # "idle"

FreeExecs == { e \in Execs : ~Alive(e) }

FreeBursts == { b \in Bursts : ~BurstAlive(b) }

\* The slot a new thread gets: the lowest free one.
Lowest(S) == CHOOSE x \in S : \A y \in S : x <= y

\* thread::spawn(move || contagion_loop(..)): the new thread is at the top
\* of contagion_loop.
SpawnExec ==
    /\ FreeExecs # {}
    /\ exec' = [exec EXCEPT ![Lowest(FreeExecs)] = [IdleExec EXCEPT !.pc = "start"]]

\* thread::spawn(move || execute_rapid_click(..))
SpawnBurst ==
    /\ FreeBursts # {}
    /\ burst' = [burst EXCEPT ![Lowest(FreeBursts)] = [IdleBurst EXCEPT !.pc = "start"]]

\* -------------------------------------------------- the new tasks at rest
\* The locals of the key capture thread before its first loop iteration
\* (gui.rs lines 46-50).
\* target is current_target; hit is the captured key name or button index
\* between its detection and its write.
IdleCap ==
    [ pc |-> "sleep", target |-> "None", capture_started |-> FALSE,
      last_keys |-> {}, last_mouse_buttons |-> {}, keys |-> {}, mouse |-> {},
      hit |-> <<>> ]

\* The tasks of main.rs that lock the configuration.
LockTasks == {"poller", "executor", "burst"}

\* The tasks that lock the configuration or capture_target: those of
\* main.rs, the capture thread and MacroApp::update.
OrderTasks == LockTasks \union {"capture", "gui"}

\* No call of precise_sleep is under way. Times are in ticks of the clock;
\* slept lists the calls of thread::sleep and reads counts the calls of
\* Instant::now.
IdlePs ==
    [ pc |-> "idle", d |-> 0, start |-> 0, target |-> 0, now |-> 0,
      slept |-> <<>>, reads |-> 0 ]

\* No call of emote_preparation_delay has been made. The record holds the
\* three fields of SharedConfig the function reads, its result, and the fps
\* and result of the formula-mode call before it.
IdleEmote ==
    [ pc |-> "idle", fps |-> 0, use_emote_formula |-> TRUE,
      emote_preparation_delay_manual_ms |-> 0, delay |-> 0, prev |-> <<>> ]

\* ------------------------------------------------------------------ Init
\* State::new, SharedConfig and the locals of the monitor threads at their start.
CoreInit(cfgs) ==
    /\ running = FALSE
    /\ macro_enabled = TRUE
    /\ warframe_active = FALSE
    /\ rapid_clicking = FALSE
    /\ config \in cfgs
    /\ foreground \in BOOLEAN
    /\ keysDown = {}
    /\ mouseDown = {}
    /\ mon_pc = "probe"
    /\ last_state = FALSE
    /\ current_state = FALSE
    /\ poll_pc = "sample"
    /\ poll_keys = {}
    /\ poll_mouse = {}
    /\ poll_cfg = <<>>
    /\ last_macro_state = FALSE
    /\ last_rapid_click_state = FALSE
    /\ exec = [ e \in Execs |-> IdleExec ]
    /\ burst = [ b \in Bursts |-> IdleBurst ]
    /\ inactive_iters = 0
    /\ trigger_hist = "none"
    /\ toggle_hist = "up"
    /\ rapid_hist = "up"
    /\ held_hist = "none"

\* The result of the probe is taken as given: foreground is any boolean.
ProbeGiven == probe_env = <<>>

\* MacroApp::new: no capture is armed and the capture thread is at the top
\* of its loop.
CaptureInit ==
    /\ capture_target = "None"
    /\ cap = IdleCap

\* The configuration mutex is free and no task has reached a statement that
\* locks it.
LockInit ==
    /\ cfg_lock = "none"
    /\ lk = [ t \in OrderTasks |-> 1 ]
    /\ target_lock = "none"

\* No call of precise_sleep is under way.
TimerInit == ps = IdlePs

\* No call of emote_preparation_delay has been made.
EmoteInit == emote = IdleEmote

InitWith(cfgs) ==
    /\ CoreInit(cfgs)
    /\ ProbeGiven
    /\ CaptureInit
    /\ LockInit
    /\ TimerInit
    /\ EmoteInit

Init == InitWith({BaseConfig})

\* ----------------------------------------------------------- environment
\* The window system: the target application gains or loses the foreground.
EnvFocus ==
    /\ foreground' = ~foreground
    /\ UNCHANGED <<stateVars, config, keysDown, mouseDown, monVars, pollVars, exec, burst, histVars,
                   auxVars>>

\* The user presses or releases one of the mouse buttons bs.
EnvMouse(bs) ==
    /\ \E b \in bs :
         mouseDown' = IF b \in mouseDown THEN mouseDown \ {b} ELSE mouseDown \union {b}
    /\ held_hist' = IF MacroPressed(to_keybinds(config), mouseDown') THEN held_hist ELSE "none"
    /\ UNCHANGED <<stateVars, config, foreground, keysDown, monVars, pollVars, exec, burst,
                   inactive_iters, trigger_hist, toggle_hist, rapid_hist, auxVars>>

\* The user presses or releases one of the keys ks.
EnvKeys(ks) ==
    /\ \E k \in ks :
         keysDown' = IF k \in keysDown THEN keysDown \ {k} ELSE keysDown \union {k}
    /\ toggle_hist' = IF "F11" \in keysDown'
                      THEN (IF "F11" \in keysDown THEN toggle_hist ELSE "down")
                      ELSE "up"
    /\ rapid_hist' = IF "J" \in keysDown'
                     THEN (IF "J" \in keysDown THEN rapid_hist ELSE "down")
                     ELSE "up"
    /\ UNCHANGED <<stateVars, config, foreground, mouseDown, monVars, pollVars, exec, burst,
                   inactive_iters, trigger_hist, held_hist, auxVars>>

\* ------------------------------------------------- background_app_check
\* The end of a loop iteration that leaves last_state as it was.
MonIterationDoneStale(cur) ==
    /\ mon_pc' = "probe"
    /\ last_state' = last_state
    /\ inactive_iters' = IF cur THEN 0 ELSE IF inactive_iters < 2 THEN inactive_iters + 1 ELSE 2

\* The end of one loop iteration: history of the probes, then the 1 s sleep.
MonIterationDone(cur) ==
    /\ mon_pc' = "probe"
    /\ last_state' = cur
    /\ inactive_iters' = IF cur THEN 0 ELSE IF inactive_iters < 2 THEN inactive_iters + 1 ELSE 2

\* The load and store of running entered on every change of the probe result.
MonProbeClearsOnAnyChange ==
    /\ mon_pc = "probe"
    /\ current_state' = foreground
    /\ warframe_active' = foreground
    /\ trigger_hist' = IF foreground THEN trigger_hist ELSE "none"
    /\ IF foreground # last_state
       THEN /\ mon_pc' = "load"
            /\ UNCHANGED <<last_state, inactive_iters>>
       ELSE MonIterationDone(foreground)
    /\ UNCHANGED <<running, macro_enabled, rapid_clicking, config, envVars, pollVars, exec, burst,
                   toggle_hist, rapid_hist, held_hist, auxVars>>

\* Lines 446-450 and 456-461: the probe and the store of warframe_active;
\* on a change to false the load of running follows as a step of its own.
MonProbe ==
    /\ mon_pc = "probe"
    /\ current_state' = foreground
    /\ warframe_active' = foreground
    /\ trigger_hist' = IF foreground THEN trigger_hist ELSE "none"
    /\ IF foreground # last_state /\ ~foreground
       THEN /\ mon_pc' = "load"
            /\ UNCHANGED <<last_state, inactive_iters>>
       ELSE MonIterationDone(foreground)
    /\ UNCHANGED <<running, macro_enabled, rapid_clicking, config, envVars, pollVars, exec, burst,
                   toggle_hist, rapid_hist, held_hist, auxVars>>

\* Line 451: state.running.load
MonLoad ==
    /\ mon_pc = "load"
    /\ IF running
       THEN /\ mon_pc' = "clear"
            /\ UNCHANGED <<last_state, inactive_iters>>
       ELSE MonIterationDone(current_state)
    /\ UNCHANGED <<stateVars, config, envVars, current_state, pollVars, exec, burst, trigger_hist,
                   toggle_hist, rapid_hist, held_hist, auxVars>>

\* Lines 452-455: state.running.store(false)
MonClear ==
    /\ mon_pc = "clear"
    /\ running' = FALSE
    /\ MonIterationDone(current_state)
    /\ UNCHANGED <<macro_enabled, warframe_active, rapid_clicking, config, envVars,
                   current_state, pollVars, exec, burst, trigger_hist, toggle_hist, rapid_hist, held_hist, auxVars>>

\* ------------------------------------- run_macro, input monitoring loop
\* Lines 549-555: the adaptive sleep; keys, mouse and config_snapshot go out
\* of scope and the next iteration reads them anew.
PollIterationDone ==
    /\ poll_pc' = "sample"
    /\ poll_keys' = {}
    /\ poll_mouse' = {}
    /\ poll_cfg' = <<>>

\* Lines 489-502: the device reads, the configuration snapshot and the F11
\* toggle with its debounce sleep. Only this thread writes macro_enabled.
PollSample ==
    /\ poll_pc = "sample"
    /\ poll_keys' = keysDown
    /\ poll_mouse' = mouseDown
    /\ poll_cfg' = config
    /\ macro_enabled' = IF "F11" \in keysDown THEN ~macro_enabled ELSE macro_enabled
    /\ trigger_hist' = IF macro_enabled' THEN trigger_hist ELSE "none"
    /\ toggle_hist' = IF "F11" \in keysDown THEN "flipped" ELSE toggle_hist
    /\ poll_pc' = "active"
    /\ UNCHANGED <<running, warframe_active, rapid_clicking, config, envVars, monVars,
                   last_macro_state, last_rapid_click_state, exec, burst, inactive_iters,
                   rapid_hist, held_hist, auxVars>>

\* What the iteration that loads warframe_active does to the history of the
\* rapid-click key: for a key that is still down, a spawn marks the press,
\* and so does a first look at it while macro_enabled is false; the reset of
\* the trackers marks a press that was looked at before.
RapidHistAfter(spawned) ==
    IF ~warframe_active
    THEN IF rapid_hist \in {"spawned", "ignored"} THEN "reset" ELSE rapid_hist
    ELSE IF "J" \in poll_keys /\ "J" \in keysDown
         THEN IF spawned THEN "spawned"
              ELSE IF ~last_rapid_click_state /\ ~macro_enabled THEN "ignored"
              ELSE rapid_hist
         ELSE rapid_hist

\* What the reset of the trackers does to the history of a held trigger.
HeldHistAfterReset ==
    IF held_hist \in {"started", "restarted"} THEN "reset_started"
    ELSE IF held_hist = "ignored" THEN "reset_ignored"
    ELSE held_hist

\* The iteration that leaves the edge trackers alone when warframe_active is false.
PollActiveKeepsTrackers ==
    /\ poll_pc = "active"
    /\ IF warframe_active
       THEN LET rapid_click_pressed == to_keybinds(poll_cfg).rapid_click \in poll_keys IN
            /\ IF rapid_click_pressed /\ ~last_rapid_click_state /\ macro_enabled
               THEN SpawnBurst
               ELSE UNCHANGED burst
            /\ last_rapid_click_state' = rapid_click_pressed
            /\ poll_pc' = "trigger"
            /\ UNCHANGED <<last_macro_state, poll_keys, poll_mouse, poll_cfg>>
       ELSE /\ UNCHANGED <<last_rapid_click_state, last_macro_state>>
            /\ PollIterationDone
            /\ UNCHANGED burst
    /\ rapid_hist' = RapidHistAfter(burst' # burst)
    /\ held_hist' = IF ~last_macro_state' /\ last_macro_state
                    THEN HeldHistAfterReset ELSE held_hist
    /\ UNCHANGED <<stateVars, config, envVars, monVars, exec, inactive_iters, trigger_hist,
                   toggle_hist, auxVars>>

\* The iteration whose rapid-click edge leaves out the tracker: a held key
\* counts as pressed anew.
PollActiveSpawnsWhileHeld ==
    /\ poll_pc = "active"
    /\ IF warframe_active
       THEN LET rapid_click_pressed == to_keybinds(poll_cfg).rapid_click \in poll_keys IN
            /\ IF rapid_click_pressed /\ macro_enabled
               THEN SpawnBurst
               ELSE UNCHANGED burst
            /\ last_rapid_click_state' = rapid_click_pressed
            /\ poll_pc' = "trigger"
            /\ UNCHANGED <<last_macro_state, poll_keys, poll_mouse, poll_cfg>>
       ELSE /\ last_rapid_click_state' = FALSE
            /\ last_macro_state' = FALSE
            /\ PollIterationDone
            /\ UNCHANGED burst
    /\ rapid_hist' = RapidHistAfter(burst' # burst)
    /\ held_hist' = IF ~last_macro_state' /\ last_macro_state
                    THEN HeldHistAfterReset ELSE held_hist
    /\ UNCHANGED <<stateVars, config, envVars, monVars, exec, inactive_iters, trigger_hist,
                   toggle_hist, auxVars>>

\* Lines 505-518 and 543-547: the load of warframe_active, then either the
\* rapid-click edge or the reset of both edge trackers.
PollActive ==
    /\ poll_pc = "active"
    /\ IF warframe_active
       THEN LET rapid_click_pressed == to_keybinds(poll_cfg).rapid_click \in poll_keys IN
            /\ IF rapid_click_pressed /\ ~last_rapid_click_state /\ macro_enabled
               THEN SpawnBurst
               ELSE UNCHANGED burst
            /\ last_rapid_click_state' = rapid_click_pressed
            /\ poll_pc' = "trigger"
            /\ UNCHANGED <<last_macro_state, poll_keys, poll_mouse, poll_cfg>>
       ELSE /\ last_rapid_click_state' = FALSE
            /\ last_macro_state' = FALSE
            /\ PollIterationDone
            /\ UNCHANGED burst
    /\ rapid_hist' = RapidHistAfter(burst' # burst)
    /\ held_hist' = IF ~last_macro_state' /\ last_macro_state
                    THEN HeldHistAfterReset ELSE held_hist
    /\ UNCHANGED <<stateVars, config, envVars, monVars, exec, inactive_iters, trigger_hist,
                   toggle_hist, auxVars>>

\* The trigger step that records a press only when it starts a sequence.
PollTriggerKeepsIgnoredEdge ==
    /\ poll_pc = "trigger"
    /\ LET macro_pressed == MacroPressed(to_keybinds(poll_cfg), poll_mouse) IN
       /\ IF macro_pressed /\ ~last_macro_state /\ ~running /\ macro_enabled
          THEN /\ running' = TRUE
               /\ SpawnExec
          ELSE /\ running' = IF ~macro_pressed /\ last_macro_state THEN FALSE ELSE running
               /\ UNCHANGED exec
       /\ last_macro_state' = (macro_pressed /\ (last_macro_state \/ (~running /\ macro_enabled)))
       /\ trigger_hist' =
            IF ~(warframe_active /\ macro_enabled) THEN "none"
            ELSE IF trigger_hist = "none" \/ (~macro_pressed /\ last_macro_state) THEN "tracked"
            ELSE IF macro_pressed /\ ~last_macro_state THEN "pressed"
            ELSE trigger_hist
       /\ held_hist' =
            IF macro_pressed /\ ~last_macro_state /\ MacroPressed(to_keybinds(config), mouseDown)
            THEN IF running \/ ~macro_enabled THEN "ignored"
                 ELSE IF held_hist \in {"reset_started", "reset_ignored"} THEN "restarted"
                 ELSE "started"
            ELSE held_hist
    /\ PollIterationDone
    /\ UNCHANGED <<macro_enabled, warframe_active, rapid_clicking, config, envVars, monVars,
                   last_rapid_click_state, burst, inactive_iters, toggle_hist, rapid_hist, auxVars>>

\* Lines 520-542: the sequence trigger. The load of running and the store
\* that follows it are one step: no other thread's access between the two
\* changes what either thread goes on to do.
PollTrigger ==
    /\ poll_pc = "trigger"
    /\ LET macro_pressed == MacroPressed(to_keybinds(poll_cfg), poll_mouse) IN
       /\ IF macro_pressed /\ ~last_macro_state /\ ~running /\ macro_enabled
          THEN /\ running' = TRUE
               /\ SpawnExec
          ELSE /\ running' = IF ~macro_pressed /\ last_macro_state THEN FALSE ELSE running
               /\ UNCHANGED exec
       /\ last_macro_state' = macro_pressed
       /\ trigger_hist' =
            IF ~(warframe_active /\ macro_enabled) THEN "none"
            ELSE IF trigger_hist = "none" \/ (~macro_pressed /\ last_macro_state) THEN "tracked"
            ELSE IF macro_pressed /\ ~last_macro_state THEN "pressed"
            ELSE trigger_hist
       /\ held_hist' =
            IF macro_pressed /\ ~last_macro_state /\ MacroPressed(to_keybinds(config), mouseDown)
            THEN IF running \/ ~macro_enabled THEN "ignored"
                 ELSE IF held_hist \in {"reset_started", "reset_ignored"} THEN "restarted"
                 ELSE "started"
            ELSE held_hist
    /\ PollIterationDone
    /\ UNCHANGED <<macro_enabled, warframe_active, rapid_clicking, config, envVars, monVars,
                   last_rapid_click_state, burst, inactive_iters, toggle_hist, rapid_hist, auxVars>>

\* -------------------------------------------------------- contagion_loop
\* Enigo::new whose Err arm goes on to the cleanup.
ExecStartCleansUp(e) ==
    /\ exec[e].pc = "start"
    /\ \E ok \in BOOLEAN :
         exec' = [exec EXCEPT ![e].pc = IF ok THEN "loop" ELSE "cleanup"]
    /\ UNCHANGED <<stateVars, config, envVars, monVars, pollVars, burst, histVars, auxVars>>

\* Enigo::new whose Err arm stores running = false before it returns.
ExecStartClearsRunning(e) ==
    /\ exec[e].pc = "start"
    /\ \E ok \in BOOLEAN :
         /\ exec' = [exec EXCEPT ![e] = IF ok THEN [@ EXCEPT !.pc = "loop"] ELSE IdleExec]
         /\ running' = (ok /\ running)
    /\ UNCHANGED <<macro_enabled, warframe_active, rapid_clicking, config, envVars, monVars,
                   pollVars, burst, histVars, auxVars>>

\* Lines 377-381: Enigo::new; on Err the thread returns.
ExecStart(e) ==
    /\ exec[e].pc = "start"
    /\ \E ok \in BOOLEAN :
         exec' = [exec EXCEPT ![e] = IF ok THEN [@ EXCEPT !.pc = "loop"] ELSE IdleExec]
    /\ UNCHANGED <<stateVars, config, envVars, monVars, pollVars, burst, histVars, auxVars>>

\* Lines 399-409: a fresh snapshot and the four releases.
Released(x, inp) ==
    [x EXCEPT !.pc = "return",
              !.cfg = <<>>,
              !.elapsed = 0,
              !.held = @ \ {inp.melee, inp.emote, inp.aim, inp.fire},
              !.log = << <<"Release", "melee", inp.melee>>,
                         <<"Release", "emote", inp.emote>>,
                         <<"Release", "aim", inp.aim>>,
                         <<"Release", "fire", inp.fire>> >>]

ExecCleanup(e) ==
    /\ exec[e].pc = "cleanup"
    /\ exec' = [exec EXCEPT ![e] = Released(@, PrecomputedInputs[config])]
    /\ UNCHANGED <<stateVars, config, envVars, monVars, pollVars, burst, histVars, auxVars>>

\* Line 410: contagion_loop returns and the thread ends.
ExecReturn(e) ==
    /\ exec[e].pc = "return"
    /\ exec' = [exec EXCEPT ![e] = IdleExec]
    /\ UNCHANGED <<stateVars, config, envVars, monVars, pollVars, burst, histVars, auxVars>>

\* Lines 383-410 as the other threads see them: the body of the loop and the
\* cleanup write no flag, so an iteration only takes time, and the thread
\* ends in the step in which line 383 reads running false.
ExecRun(e) ==
    /\ exec[e].pc = "loop"
    /\ ~running
    /\ exec' = [exec EXCEPT ![e] = IdleExec]
    /\ UNCHANGED <<stateVars, config, envVars, monVars, pollVars, burst, histVars, auxVars>>

\* ------------------------------------- execute_contagion_sequence, by step
\* What a thread does is recorded in the log of its current loop iteration:
\* the loads of running, the injected events and the timed waits.
ReadEv(v) == << IF v THEN "ReadTrue" ELSE "ReadFalse", "running", <<>> >>

PressEv(role, input) == << "Press", role, input >>

ReleaseEv(role, input) == << "Release", role, input >>

SleepEv(name) == << "Sleep", name, <<>> >>

\* The straight-line part without the release of the melee key.
ScriptKeepsMelee ==
    << [op |-> "Press",   arg |-> "jump"],
       [op |-> "Sleep",   arg |-> "double_jump_delay"],
       [op |-> "Release", arg |-> "jump"],
       [op |-> "Press",   arg |-> "jump"],
       [op |-> "Sleep",   arg |-> "double_jump_delay"],
       [op |-> "Release", arg |-> "jump"],
       [op |-> "Press",   arg |-> "aim"],
       [op |-> "Sleep",   arg |-> "aim_melee_delay"],
       [op |-> "Press",   arg |-> "melee"],
       [op |-> "Sleep",   arg |-> "melee_hold_time"],
       [op |-> "Release", arg |-> "aim"],
       [op |-> "Sleep",   arg |-> "emote_prep_delay"],
       [op |-> "Press",   arg |-> "emote"],
       [op |-> "Sleep",   arg |-> "double_jump_delay"],
       [op |-> "Release", arg |-> "emote"],
       [op |-> "Press",   arg |-> "emote"],
       [op |-> "Sleep",   arg |-> "double_jump_delay"],
       [op |-> "Release", arg |-> "emote"] >>

\* The straight-line part with the aim button released before the melee key.
ScriptAimFirst ==
    << [op |-> "Press",   arg |-> "jump"],
       [op |-> "Sleep",   arg |-> "double_jump_delay"],
       [op |-> "Release", arg |-> "jump"],
       [op |-> "Press",   arg |-> "jump"],
       [op |-> "Sleep",   arg |-> "double_jump_delay"],
       [op |-> "Release", arg |-> "jump"],
       [op |-> "Press",   arg |-> "aim"],
       [op |-> "Sleep",   arg |-> "aim_melee_delay"],
       [op |-> "Press",   arg |-> "melee"],
       [op |-> "Sleep",   arg |-> "melee_hold_time"],
       [op |-> "Release", arg |-> "aim"],
       [op |-> "Release", arg |-> "melee"],
       [op |-> "Sleep",   arg |-> "emote_prep_delay"],
       [op |-> "Press",   arg |-> "emote"],
       [op |-> "Sleep",   arg |-> "double_jump_delay"],
       [op |-> "Release", arg |-> "emote"],
       [op |-> "Press",   arg |-> "emote"],
       [op |-> "Sleep",   arg |-> "double_jump_delay"],
       [op |-> "Release", arg |-> "emote"] >>

\* Lines 324-352: the straight-line part of execute_contagion_sequence, one
\* entry per statement.
Script ==
    << [op |-> "Press",   arg |-> "jump"],
       [op |-> "Sleep",   arg |-> "double_jump_delay"],
       [op |-> "Release", arg |-> "jump"],
       [op |-> "Press",   arg |-> "jump"],
       [op |-> "Sleep",   arg |-> "double_jump_delay"],
       [op |-> "Release", arg |-> "jump"],
       [op |-> "Press",   arg |-> "aim"],
       [op |-> "Sleep",   arg |-> "aim_melee_delay"],
       [op |-> "Press",   arg |-> "melee"],
       [op |-> "Sleep",   arg |-> "melee_hold_time"],
       [op |-> "Release", arg |-> "melee"],
       [op |-> "Release", arg |-> "aim"],
       [op |-> "Sleep",   arg |-> "emote_prep_delay"],
       [op |-> "Press",   arg |-> "emote"],
       [op |-> "Sleep",   arg |-> "double_jump_delay"],
       [op |-> "Release", arg |-> "emote"],
       [op |-> "Press",   arg |-> "emote"],
       [op |-> "Sleep",   arg |-> "double_jump_delay"],
       [op |-> "Release", arg |-> "emote"] >>

\* The record of a thread after it has run statement st with the inputs inp.
Execute(x, st, inp) ==
    CASE st.op = "Press" ->
           [x EXCEPT !.held = @ \union {inp[st.arg]},
                     !.log = Append(@, PressEv(st.arg, inp[st.arg]))]
      [] st.op = "Release" ->
           [x EXCEPT !.held = @ \ {inp[st.arg]},
                     !.log = Append(@, ReleaseEv(st.arg, inp[st.arg]))]
      [] OTHER ->
           [x EXCEPT !.log = Append(@, SleepEv(st.arg))]

\* The loop condition that also loads macro_enabled.
ExecLoopReadsEnabled(e) ==
    /\ exec[e].pc = "loop"
    /\ exec' = [exec EXCEPT ![e].pc = IF running /\ macro_enabled THEN "snapshot" ELSE "cleanup"]
    /\ UNCHANGED <<stateVars, config, envVars, monVars, pollVars, burst, histVars, auxVars>>

\* Line 383: while state.running.load
ExecLoop(e) ==
    /\ exec[e].pc = "loop"
    /\ exec' = [exec EXCEPT ![e].pc = IF running THEN "snapshot" ELSE "cleanup"]
    /\ UNCHANGED <<stateVars, config, envVars, monVars, pollVars, burst, histVars, auxVars>>

\* Lines 385-391: the configuration snapshot of this loop iteration.
ExecSnapshot(e) ==
    /\ exec[e].pc = "snapshot"
    /\ exec' = [exec EXCEPT ![e].pc = "entry", ![e].cfg = config, ![e].log = <<>>,
                            ![e].elapsed = 0, ![e].ip = 1]
    /\ UNCHANGED <<stateVars, config, envVars, monVars, pollVars, burst, histVars, auxVars>>

\* Lines 317-322: execute_contagion_sequence returns at once when running is false.
ExecEntry(e) ==
    /\ exec[e].pc = "entry"
    /\ exec' = [exec EXCEPT ![e].pc = IF running THEN "script" ELSE "loopdelay",
                            ![e].log = Append(@, ReadEv(running))]
    /\ UNCHANGED <<stateVars, config, envVars, monVars, pollVars, burst, histVars, auxVars>>

\* The straight-line part with a load of running before each later stage,
\* which leaves the iteration when it returns false.
ExecScriptGated(e) ==
    /\ exec[e].pc = "script"
    /\ exec' = [exec EXCEPT ![e] =
                  IF @.ip \in {7, 13, 14} /\ ~running
                  THEN [@ EXCEPT !.pc = "loopdelay", !.log = Append(@, ReadEv(FALSE))]
                  ELSE IF @.ip = Len(Script)
                       THEN [Execute(@, Script[@.ip], PrecomputedInputs[@.cfg])
                               EXCEPT !.pc = "rfcheck", !.ip = 1, !.staged = TRUE]
                       ELSE [Execute(@, Script[@.ip], PrecomputedInputs[@.cfg])
                               EXCEPT !.ip = @ + 1, !.staged = TRUE]]
    /\ UNCHANGED <<stateVars, config, envVars, monVars, pollVars, burst, histVars, auxVars>>

\* Lines 324-352: the next statement of the straight-line part; after the
\* last one, line 355 takes start_time.
Advance(x) ==
    IF x.ip = Len(Script)
    THEN [x EXCEPT !.pc = "rfcheck", !.ip = 1, !.staged = TRUE, !.elapsed = 0]
    ELSE [x EXCEPT !.ip = @ + 1, !.staged = TRUE]

\* The straight-line part reading the shared configuration at every statement.
ExecScriptLive(e) ==
    /\ exec[e].pc = "script"
    /\ exec' = [exec EXCEPT ![e] = Advance(Execute(@, Script[@.ip], PrecomputedInputs[config]))]
    /\ UNCHANGED <<stateVars, config, envVars, monVars, pollVars, burst, histVars, auxVars>>

ExecScript(e) ==
    /\ exec[e].pc = "script"
    /\ exec' = [exec EXCEPT ![e] = Advance(Execute(@, Script[@.ip], PrecomputedInputs[@.cfg]))]
    /\ UNCHANGED <<stateVars, config, envVars, monVars, pollVars, burst, histVars, auxVars>>

\* The rapid-fire loop whose condition also compares the elapsed time with
\* the limit, before the click.
ExecRfCheckTimeFirst(e) ==
    /\ exec[e].pc = "rfcheck"
    /\ exec' = [exec EXCEPT ![e].pc = IF running /\ exec[e].elapsed < exec[e].cfg.rapid_fire_duration_ms
                                      THEN "firepress" ELSE "endcheck",
                            ![e].log = Append(@, ReadEv(running))]
    /\ UNCHANGED <<stateVars, config, envVars, monVars, pollVars, burst, histVars, auxVars>>

\* Line 358: while state.running.load
ExecRfCheck(e) ==
    /\ exec[e].pc = "rfcheck"
    /\ exec' = [exec EXCEPT ![e].pc = IF running THEN "firepress" ELSE "endcheck",
                            ![e].log = Append(@, ReadEv(running))]
    /\ UNCHANGED <<stateVars, config, envVars, monVars, pollVars, burst, histVars, auxVars>>

\* Line 359
ExecFirePress(e) ==
    /\ exec[e].pc = "firepress"
    /\ exec' = [exec EXCEPT ![e] =
                  [Execute(@, [op |-> "Press", arg |-> "fire"], PrecomputedInputs[@.cfg])
                     EXCEPT !.pc = "firerelease"]]
    /\ UNCHANGED <<stateVars, config, envVars, monVars, pollVars, burst, histVars, auxVars>>

\* Line 360
ExecFireRelease(e) ==
    /\ exec[e].pc = "firerelease"
    /\ exec' = [exec EXCEPT ![e] =
                  [Execute(@, [op |-> "Release", arg |-> "fire"], PrecomputedInputs[@.cfg])
                     EXCEPT !.pc = "firesleep"]]
    /\ UNCHANGED <<stateVars, config, envVars, monVars, pollVars, burst, histVars, auxVars>>

\* The limit taken as reached when the elapsed milliseconds equal it.
TimeIsUpInclusive(elapsed, limit) == elapsed >= limit

\* The loop is left when the elapsed milliseconds exceed the limit (line 364).
TimeIsUp(elapsed, limit) == elapsed > limit

\* Lines 361-366: precise_sleep(rapid_fire_click_delay), then the elapsed
\* time against duration_limit. The pass through the loop body has taken
\* the click delay and at most MaxJitterMs more.
ExecFireSleep(e) ==
    /\ exec[e].pc = "firesleep"
    /\ \E j \in 0..MaxJitterMs :
         LET t == exec[e].elapsed + exec[e].cfg.rapid_fire_click_delay_ms + j IN
         exec' = [exec EXCEPT ![e].elapsed = t,
                              ![e].log = Append(@, SleepEv("rapid_fire_click_delay")),
                              ![e].pc = IF TimeIsUp(t, exec[e].cfg.rapid_fire_duration_ms)
                                        THEN "endcheck" ELSE "rfcheck"]
    /\ UNCHANGED <<stateVars, config, envVars, monVars, pollVars, burst, histVars, auxVars>>

\* The end-of-sequence delay waited whatever running is.
ExecEndCheckAlways(e) ==
    /\ exec[e].pc = "endcheck"
    /\ exec' = [exec EXCEPT ![e].pc = "loopdelay",
                            ![e].log = @ \o << ReadEv(running), SleepEv("sequence_end_delay") >>]
    /\ UNCHANGED <<stateVars, config, envVars, monVars, pollVars, burst, histVars, auxVars>>

\* Lines 369-373: the end-of-sequence delay, waited when running is read true.
ExecEndCheck(e) ==
    /\ exec[e].pc = "endcheck"
    /\ exec' = [exec EXCEPT ![e].pc = "loopdelay",
                            ![e].log = IF running
                                       THEN @ \o << ReadEv(TRUE), SleepEv("sequence_end_delay") >>
                                       ELSE Append(@, ReadEv(FALSE))]
    /\ UNCHANGED <<stateVars, config, envVars, monVars, pollVars, burst, histVars, auxVars>>

\* Lines 395-396: precise_sleep(loop_delay), then back to line 383.
ExecLoopDelay(e) ==
    /\ exec[e].pc = "loopdelay"
    /\ exec' = [exec EXCEPT ![e].pc = "loop",
                            ![e].log = Append(@, SleepEv("loop_delay"))]
    /\ UNCHANGED <<stateVars, config, envVars, monVars, pollVars, burst, histVars, auxVars>>

\* One step of thread e inside contagion_loop.
ExecStep(e) ==
    \/ ExecStart(e)
    \/ ExecLoop(e)
    \/ ExecSnapshot(e)
    \/ ExecEntry(e)
    \/ ExecScript(e)
    \/ ExecRfCheck(e)
    \/ ExecFirePress(e)
    \/ ExecFireRelease(e)
    \/ ExecFireSleep(e)
    \/ ExecEndCheck(e)
    \/ ExecLoopDelay(e)
    \/ ExecCleanup(e)
    \/ ExecReturn(e)

\* --------------------------------------------------------------- SeqSpec
\* One contagion_loop thread, step by step. The other threads appear through
\* what this thread can see of them: their stores to running and the edits
\* of the configuration.
Followed == Lowest(Execs)

\* Lines 530-538: the poller's press edge; it stores running = true and
\* spawns a thread, which is followed when no followed thread is alive.
SeqPress ==
    /\ ~running
    /\ macro_enabled
    /\ running' = TRUE
    /\ exec' = IF Alive(Followed)
               THEN exec
               ELSE [exec EXCEPT ![Followed] = [IdleExec EXCEPT !.pc = "start"]]
    /\ UNCHANGED <<macro_enabled, warframe_active, rapid_clicking, config, envVars, monVars,
                   pollVars, burst, histVars, auxVars>>

\* Lines 539-541 and 451-453: the poller's release edge or the monitor's
\* focus loss stores running = false.
SeqCancel ==
    /\ running
    /\ running' = FALSE
    /\ UNCHANGED <<macro_enabled, warframe_active, rapid_clicking, config, envVars, monVars,
                   pollVars, exec, burst, histVars, auxVars>>

\* gui.rs, MacroApp::update: a widget or a captured key writes the
\* configuration under its lock.
GuiEdit(cfgs) ==
    /\ \E c \in cfgs : c # config /\ config' = c
    /\ UNCHANGED <<stateVars, envVars, monVars, pollVars, exec, burst, histVars, auxVars>>

SeqInit == InitWith(SeqConfigs)

SeqNext ==
    \/ SeqPress
    \/ SeqCancel
    \/ GuiEdit(SeqConfigs)
    \/ ExecStep(Followed)

SeqSpec == SeqInit /\ [][SeqNext]_vars

\* The followed thread is an operating-system thread and every wait in it is
\* finite, so it keeps taking steps while it is alive.
FairSeqSpec == SeqSpec /\ WF_vars(ExecStep(Followed))

\* --------------------------------------------------------------- TermSpec
\* The process has exited.
Exited == poll_pc = "exited"

\* Lines 560-564: the Ctrl-C handler prints two lines and calls
\* process::exit(0). Every thread ends where it stands; no destructor of
\* another thread's Enigo runs and nothing is released.
Terminate ==
    /\ ~Exited
    /\ poll_pc' = "exited"
    /\ mon_pc' = "exited"
    /\ exec' = [ e \in Execs |-> [exec[e] EXCEPT !.pc = "exited"] ]
    /\ burst' = [ b \in Bursts |-> [burst[b] EXCEPT !.pc = "exited"] ]
    /\ UNCHANGED <<stateVars, config, envVars, last_state, current_state, poll_keys,
                   poll_mouse, poll_cfg, last_macro_state, last_rapid_click_state, histVars,
                   auxVars>>

\* The followed thread of SeqSpec with the termination signal arriving at
\* any step.
TermNext ==
    \/ (~Exited /\ SeqNext)
    \/ Terminate

TermSpec == SeqInit /\ [][TermNext]_vars

\* ------------------------------------------------- execute_rapid_click
\* Line 414: rapid_clicking.store(true)
BurstStart(b) ==
    /\ burst[b].pc = "start"
    /\ rapid_clicking' = TRUE
    /\ burst' = [burst EXCEPT ![b].pc = "enigo"]
    /\ UNCHANGED <<running, macro_enabled, warframe_active, config, envVars, monVars,
                   pollVars, exec, histVars, auxVars>>

\* Enigo::new whose Err arm returns without the store to rapid_clicking.
BurstAcquireKeepsFlag(b) ==
    /\ burst[b].pc = "enigo"
    /\ \E ok \in BOOLEAN :
         burst' = [burst EXCEPT ![b] = IF ok THEN [@ EXCEPT !.pc = "check", !.cfg = config]
                                             ELSE IdleBurst]
    /\ UNCHANGED <<stateVars, config, envVars, monVars, pollVars, exec, histVars, auxVars>>

\* Lines 415-427: Enigo::new; when it fails the flag is cleared and the
\* thread ends, otherwise the configuration snapshot is taken.
BurstAcquire(b) ==
    /\ burst[b].pc = "enigo"
    /\ \E ok \in BOOLEAN :
         IF ok
         THEN /\ burst' = [burst EXCEPT ![b].pc = "check", ![b].cfg = config]
              /\ UNCHANGED rapid_clicking
         ELSE /\ burst' = [burst EXCEPT ![b] = IdleBurst]
              /\ rapid_clicking' = FALSE
    /\ UNCHANGED <<running, macro_enabled, warframe_active, config, envVars, monVars,
                   pollVars, exec, histVars, auxVars>>

\* The for loop running over 0..=rapid_click_count.
BurstCheckInclusive(b) ==
    /\ burst[b].pc = "check"
    /\ burst' = [burst EXCEPT ![b] =
                   IF @.i <= @.cfg.rapid_click_count
                   THEN IF macro_enabled
                        THEN [@ EXCEPT !.pc = "click"]
                        ELSE [@ EXCEPT !.pc = "done", !.read_false = TRUE]
                   ELSE [@ EXCEPT !.pc = "done"]]
    /\ UNCHANGED <<stateVars, config, envVars, monVars, pollVars, exec, histVars, auxVars>>

\* The head of the for loop that also loads warframe_active and running.
BurstCheckReadsActive(b) ==
    /\ burst[b].pc = "check"
    /\ burst' = [burst EXCEPT ![b] =
                   IF @.i < @.cfg.rapid_click_count
                   THEN IF macro_enabled /\ (warframe_active \/ running)
                        THEN [@ EXCEPT !.pc = "click"]
                        ELSE [@ EXCEPT !.pc = "done", !.read_false = TRUE]
                   ELSE [@ EXCEPT !.pc = "done"]]
    /\ UNCHANGED <<stateVars, config, envVars, monVars, pollVars, exec, histVars, auxVars>>

\* Lines 429-432: the head of the for loop over 0..rapid_click_count and
\* the load of macro_enabled.
BurstCheck(b) ==
    /\ burst[b].pc = "check"
    /\ burst' = [burst EXCEPT ![b] =
                   IF @.i < @.cfg.rapid_click_count
                   THEN IF macro_enabled
                        THEN [@ EXCEPT !.pc = "click"]
                        ELSE [@ EXCEPT !.pc = "done", !.read_false = TRUE]
                   ELSE [@ EXCEPT !.pc = "done"]]
    /\ UNCHANGED <<stateVars, config, envVars, monVars, pollVars, exec, histVars, auxVars>>

\* Lines 434-436: one press/release pair of the fire button and the delay.
BurstClick(b) ==
    /\ burst[b].pc = "click"
    /\ burst' = [burst EXCEPT ![b].pc = "check", ![b].i = @ + 1, ![b].clicks = @ + 1]
    /\ UNCHANGED <<stateVars, config, envVars, monVars, pollVars, exec, histVars, auxVars>>

\* The end of the thread storing false to the flag next to its own.
BurstDoneClearsActive(b) ==
    /\ burst[b].pc = "done"
    /\ warframe_active' = FALSE
    /\ burst' = [burst EXCEPT ![b] = IdleBurst]
    /\ UNCHANGED <<running, macro_enabled, rapid_clicking, config, envVars, monVars,
                   pollVars, exec, histVars, auxVars>>

\* Line 439: rapid_clicking.store(false), and the thread ends.
BurstDone(b) ==
    /\ burst[b].pc = "done"
    /\ rapid_clicking' = FALSE
    /\ burst' = [burst EXCEPT ![b] = IdleBurst]
    /\ UNCHANGED <<running, macro_enabled, warframe_active, config, envVars, monVars,
                   pollVars, exec, histVars, auxVars>>

\* One step of thread b inside execute_rapid_click.
BurstStep(b) ==
    \/ BurstStart(b)
    \/ BurstAcquire(b)
    \/ BurstCheck(b)
    \/ BurstClick(b)
    \/ BurstDone(b)

\* -------------------------------------------------------------- BurstSpec
\* The rapid-click threads, step by step, with the poller's two writes that
\* concern them.
\* Lines 509-516: the poller's rapid-click edge with macro_enabled read true.
BurstPress ==
    /\ macro_enabled
    /\ SpawnBurst
    /\ UNCHANGED <<stateVars, config, envVars, monVars, pollVars, exec, histVars, auxVars>>

\* Lines 496-502: the F11 edge flips macro_enabled.
ToggleMacro ==
    /\ macro_enabled' = ~macro_enabled
    /\ UNCHANGED <<running, warframe_active, rapid_clicking, config, envVars, monVars,
                   pollVars, exec, burst, histVars, auxVars>>

BurstInit == InitWith(BurstConfigs)

BurstNext ==
    \/ BurstPress
    \/ ToggleMacro
    \/ GuiEdit(BurstConfigs)
    \/ \E b \in Bursts : BurstStep(b)

BurstSpec == BurstInit /\ [][BurstNext]_vars

\* ---------------------------------------------------------------- KeySpec
\* The key binding strings on their way through the program: the GUI stores
\* a string in the configuration, the input monitoring loop snapshots the
\* configuration and converts it with to_keybinds.
KeyNext ==
    \/ GuiEdit(KeyConfigs)
    \/ EnvFocus
    \/ MonProbe
    \/ MonLoad
    \/ PollSample
    \/ PollActive
    \/ PollTrigger

KeyInit == InitWith(KeyConfigs)

KeySpec == KeyInit /\ [][KeyNext]_vars

\* -------------------------------------------------------------- RapidSpec
\* The rapid-click key: the monitor, the input monitoring loop and the
\* execute_rapid_click threads, all step by step, with the window system
\* and the key as their environment.
RapidKeys == {"J"}

RapidNext ==
    \/ EnvFocus
    \/ EnvKeys(RapidKeys)
    \/ MonProbe
    \/ MonLoad
    \/ PollSample
    \/ PollActive
    \/ PollTrigger
    \/ \E b \in Bursts : BurstStep(b)

RapidSpec == Init /\ [][RapidNext]_vars

\* ---------------------------------------------------------- RapidGateSpec
\* RapidSpec with the F11 key: the rapid-click edge under both values of
\* macro_enabled.
RapidGateKeys == RapidKeys \union {"F11"}

RapidGateNext ==
    \/ EnvFocus
    \/ EnvKeys(RapidGateKeys)
    \/ MonProbe
    \/ MonLoad
    \/ PollSample
    \/ PollActive
    \/ PollTrigger
    \/ \E b \in Bursts : BurstStep(b)

RapidGateSpec == Init /\ [][RapidGateNext]_vars

\* -------------------------------------------------------------- FrameSpec
\* Every task that shares State, each step by step: the monitor, the input
\* monitoring loop, the followed contagion_loop thread, the
\* execute_rapid_click threads and the GUI's edits of the configuration.
\* Further contagion_loop threads appear with their start and their end.
\* The user of this specification works one control at a time: the trigger
\* button moves while the rapid-click key is up and no burst runs, the key
\* moves while the button is up and no sequence runs, and the window and the
\* configuration are touched while no burst runs.
FrameConfigs == { MakeConfig(DefaultBindings, 0, 1, 1), MakeConfig(OtherBindings, 0, 1, 1) }

NoBurstAlive == \A b \in Bursts : ~BurstAlive(b)

NoExecAlive == \A e \in Execs : ~Alive(e)

FrameFocus == NoBurstAlive /\ EnvFocus

FrameMouse == keysDown = {} /\ NoBurstAlive /\ EnvMouse({DefaultBindings.macro_button})

FrameKeys == mouseDown = {} /\ NoExecAlive /\ EnvKeys(RapidKeys)

FrameEdit == NoBurstAlive /\ NoExecAlive /\ GuiEdit(FrameConfigs)

FrameNext ==
    \/ FrameFocus
    \/ FrameMouse
    \/ FrameKeys
    \/ FrameEdit
    \/ MonProbe
    \/ MonLoad
    \/ MonClear
    \/ PollSample
    \/ PollActive
    \/ PollTrigger
    \/ ExecStep(Followed)
    \/ \E e \in Execs \ {Followed} : ExecStart(e)
    \/ \E e \in Execs \ {Followed} : ExecRun(e)
    \/ \E b \in Bursts : BurstStep(b)

FrameSpec == InitWith(FrameConfigs) /\ [][FrameNext]_vars

\* ------------------------------------------------------------------ Spec
\* The coordination of the threads: the trigger buttons, the F11 key and the
\* focus change as the environment gives them; of a contagion_loop thread,
\* its start and its end.
TriggerButtons == {DefaultBindings.macro_button, DefaultBindings.macro_alt_button}

Next ==
    \/ EnvFocus
    \/ EnvMouse(TriggerButtons)
    \/ EnvKeys({"F11"})
    \/ MonProbe
    \/ MonLoad
    \/ MonClear
    \/ PollSample
    \/ PollActive
    \/ PollTrigger
    \/ \E e \in Execs : ExecStart(e)
    \/ \E e \in Execs : ExecRun(e)

Spec == Init /\ [][Next]_vars

\* --------------------------------------------------------- BurstFocusSpec
\* The execute_rapid_click threads, step by step, among the writes to the
\* flags they could read: background_app_check statement by statement with
\* the window system, and the poller through its spawns (made in iterations
\* that load warframe_active true), its F11 toggle and its release edge.
BurstFocusConfigs == { MakeConfig(DefaultBindings, 1, 1, MaxClickCount) }

BurstFocusNext ==
    \/ EnvFocus
    \/ MonProbe
    \/ MonLoad
    \/ MonClear
    \/ (warframe_active /\ BurstPress)
    \/ (warframe_active /\ SeqPress)
    \/ SeqCancel
    \/ ToggleMacro
    \/ ExecStart(Followed)
    \/ ExecRun(Followed)
    \/ \E b \in Bursts : BurstStep(b)

BurstFocusSpec == InitWith(BurstFocusConfigs) /\ [][BurstFocusNext]_vars

\* ------------------------------------------------------------- EnableSpec
\* The input monitoring loop and background_app_check with one
\* contagion_loop thread statement by statement: the trigger button, the
\* F11 key and the focus as the environment gives them.
EnableConfigs == { MakeConfig(DefaultBindings, 0, 1, 1) }

\* The thread a press spawns while the followed thread is alive; it runs
\* from its start to its end in two steps.
Second == Lowest(Execs \ {Followed})

EnableNext ==
    \/ EnvFocus
    \/ EnvMouse({DefaultBindings.macro_button})
    \/ EnvKeys({"F11"})
    \/ MonProbe
    \/ MonLoad
    \/ MonClear
    \/ PollSample
    \/ PollActive
    \/ PollTrigger
    \/ ExecStep(Followed)
    \/ ExecStart(Second)
    \/ ExecRun(Second)

EnableSpec == InitWith(EnableConfigs) /\ [][EnableNext]_vars

\* ------------------------------------------------ gui.rs, capture thread
\* enum CaptureTarget (gui.rs lines 12-22).
KeyTargets == {"MeleeKey", "JumpKey", "EmoteKey", "RapidClickKey"}

MouseTargets == {"AimButton", "FireButton", "MacroButton", "MacroAltButton"}

CaptureTargets == {"None"} \union KeyTargets \union MouseTargets

\* The field of SharedConfig a capture for the target writes (lines 148-153,
\* 264-269, 325-342).
TargetField(t) ==
    CASE t = "MeleeKey" -> "melee_key"
      [] t = "JumpKey" -> "jump_key"
      [] t = "EmoteKey" -> "emote_key"
      [] t = "RapidClickKey" -> "rapid_click_key"
      [] t = "AimButton" -> "aim_button"
      [] t = "FireButton" -> "fire_button"
      [] t = "MacroButton" -> "macro_button"
      [] t = "MacroAltButton" -> "macro_alt_button"

\* The fields the capture thread names.
BindingFields == { TargetField(t) : t \in KeyTargets \union MouseTargets }

\* Lines 252-254: the keys the capture skips.
ModifierKeys == {"LControl", "RControl", "LShift", "RShift", "LAlt", "RAlt"}

\* format!("{:?}", keycode) for the keys without an arm of their own in
\* keycode_to_string: the name of the enum variant.
DebugName(k) ==
    CASE k = "Escape" -> <<"E","s","c","a","p","e">>
      [] k = "Enter" -> <<"E","n","t","e","r">>
      [] k = "LShift" -> <<"L","S","h","i","f","t">>
      [] k = "Tab" -> <<"T","a","b">>

\* SharedConfig::keycode_to_string (config.rs lines 62-123).
keycode_to_string(k) ==
    CASE k = "Space" -> <<"S","p","a","c","e">>
      [] InSeq(k, UpperLetters) -> <<k>>
      [] \E i \in 1..Len(Digits) : k = "Key" \o Digits[i] ->
             << Digits[CHOOSE i \in 1..Len(Digits) : k = "Key" \o Digits[i]] >>
      [] k = "F11" -> <<"F","1","1">>
      [] k = "Dot" -> <<".">>
      [] OTHER -> DebugName(k)

\* The value written to the configuration: a key name or a button index.
HitValue(c) == IF c.target \in KeyTargets THEN c.hit ELSE c.hit[1]

\* The end of a loop iteration that ends early: keys and mouse go out of scope.
CapContinue(c) == [c EXCEPT !.pc = "sleep", !.keys = {}, !.mouse = {}, !.hit = <<>>]

\* Line 96: thread::sleep(10 ms) at the top of the loop.
CapWake ==
    /\ cap.pc = "sleep"
    /\ cap' = [cap EXCEPT !.pc = "target"]
    /\ UNCHANGED <<stateVars, config, envVars, monVars, pollVars, exec, burst, histVars,
                   probe_env, capture_target, cfg_lock, lk, target_lock, ps, emote>>

\* Lines 104-129: the target is read; without a target the locals are
\* cleared; a new capture records what is pressed and waits; otherwise keys
\* and mouse are sampled.
CapTarget ==
    /\ cap.pc = "target"
    /\ cap' = IF capture_target = "None"
              THEN CapContinue([cap EXCEPT !.target = "None", !.last_keys = {},
                                           !.last_mouse_buttons = {},
                                           !.capture_started = FALSE])
              ELSE IF ~cap.capture_started
              THEN [cap EXCEPT !.target = capture_target, !.capture_started = TRUE,
                               !.last_keys = keysDown, !.last_mouse_buttons = mouseDown,
                               !.pc = "settle"]
              ELSE [cap EXCEPT !.target = capture_target, !.keys = keysDown,
                               !.mouse = mouseDown, !.pc = "evdev"]
    /\ UNCHANGED <<stateVars, config, envVars, monVars, pollVars, exec, burst, histVars,
                   probe_env, capture_target, cfg_lock, lk, target_lock, ps, emote>>

\* Line 124: thread::sleep(200 ms), then continue.
CapSettle ==
    /\ cap.pc = "settle"
    /\ cap' = CapContinue(cap)
    /\ UNCHANGED <<stateVars, config, envVars, monVars, pollVars, exec, burst, histVars,
                   probe_env, capture_target, cfg_lock, lk, target_lock, ps, emote>>

\* Lines 132-147 and 158-160 (Linux): an evdev event of a side button while
\* a mouse target is captured locks the configuration; codes stands for the
\* events fetch_events returns, at most one of them a side button.
CapEvdev(codes) ==
    /\ cap.pc = "evdev"
    /\ \E code \in codes \union {0} :
         IF cap.target \in MouseTargets /\ code # 0
         THEN /\ cfg_lock = "none"
              /\ cfg_lock' = "capture"
              /\ cap' = [cap EXCEPT !.pc = "evdev_write", !.hit = << code >>]
         ELSE /\ cap' = [cap EXCEPT !.pc = "escape"]
              /\ UNCHANGED cfg_lock
    /\ UNCHANGED <<stateVars, config, envVars, monVars, pollVars, exec, burst, histVars,
                   probe_env, capture_target, lk, target_lock, ps, emote>>

\* The captured value written to the target's field.
ConfigWritten == [config EXCEPT ![TargetField(cap.target)] = HitValue(cap)]

\* The write that also switches the alternative button on when that button
\* is the one captured, and off otherwise.
CapWriteEnablesAlt(from, to) ==
    /\ cap.pc = from
    /\ config' = [ConfigWritten EXCEPT !.enable_macro_alt = (cap.target = "MacroAltButton")]
    /\ capture_target' = "None"
    /\ cfg_lock' = "none"
    /\ cap' = [cap EXCEPT !.pc = to, !.capture_started = FALSE, !.hit = <<>>]
    /\ UNCHANGED <<stateVars, envVars, monVars, pollVars, exec, burst, histVars,
                   probe_env, lk, target_lock, ps, emote>>

\* Lines 148-157, 161-170, 264-283 and 325-346: the write, capture_target
\* set to None under the lock, and the guard dropped at continue or break.
CapWrite(from, to) ==
    /\ cap.pc = from
    /\ config' = ConfigWritten
    /\ capture_target' = "None"
    /\ cfg_lock' = "none"
    /\ cap' = [cap EXCEPT !.pc = to, !.capture_started = FALSE, !.hit = <<>>]
    /\ UNCHANGED <<stateVars, envVars, monVars, pollVars, exec, burst, histVars,
                   probe_env, lk, target_lock, ps, emote>>

\* Lines 236-241: a new press of Escape cancels the capture.
CapEscape ==
    /\ cap.pc = "escape"
    /\ IF "Escape" \in cap.keys /\ "Escape" \notin cap.last_keys
       THEN /\ capture_target' = "None"
            /\ cap' = CapContinue([cap EXCEPT !.capture_started = FALSE])
       ELSE /\ cap' = [cap EXCEPT !.pc = "keys"]
            /\ UNCHANGED capture_target
    /\ UNCHANGED <<stateVars, config, envVars, monVars, pollVars, exec, burst, histVars,
                   probe_env, cfg_lock, lk, target_lock, ps, emote>>

\* The keys newly pressed that are not modifiers.
NewKeys(c) == (c.keys \ c.last_keys) \ ModifierKeys

\* Lines 244-263: for a key target, the first newly pressed key that is not
\* a modifier, in the order the device reports the keys, is converted and
\* the configuration locked.
CapKeys ==
    /\ cap.pc = "keys"
    /\ IF cap.target \in KeyTargets /\ NewKeys(cap) # {}
       THEN /\ cfg_lock = "none"
            /\ cfg_lock' = "capture"
            /\ \E k \in NewKeys(cap) :
                 cap' = [cap EXCEPT !.pc = "key_write", !.hit = keycode_to_string(k)]
       ELSE /\ cap' = [cap EXCEPT !.pc = "mouse"]
            /\ UNCHANGED cfg_lock
    /\ UNCHANGED <<stateVars, config, envVars, monVars, pollVars, exec, burst, histVars,
                   probe_env, capture_target, lk, target_lock, ps, emote>>

\* The buttons newly pressed.
NewButtons(c) == c.mouse \ c.last_mouse_buttons

\* Lines 293-324: for a mouse target, the lowest index newly pressed.
CapMouse ==
    /\ cap.pc = "mouse"
    /\ IF cap.target \in MouseTargets /\ NewButtons(cap) # {}
       THEN /\ cfg_lock = "none"
            /\ cfg_lock' = "capture"
            /\ cap' = [cap EXCEPT !.pc = "mouse_write",
                                  !.hit = << CHOOSE i \in NewButtons(cap) :
                                               \A j \in NewButtons(cap) : i <= j >>]
       ELSE /\ cap' = [cap EXCEPT !.pc = "update"]
            /\ UNCHANGED cfg_lock
    /\ UNCHANGED <<stateVars, config, envVars, monVars, pollVars, exec, burst, histVars,
                   probe_env, capture_target, lk, target_lock, ps, emote>>

\* Lines 355-356: the last state is updated and the iteration ends.
CapUpdate ==
    /\ cap.pc = "update"
    /\ cap' = CapContinue([cap EXCEPT !.last_keys = cap.keys,
                                      !.last_mouse_buttons = cap.mouse])
    /\ UNCHANGED <<stateVars, config, envVars, monVars, pollVars, exec, burst, histVars,
                   probe_env, capture_target, cfg_lock, lk, target_lock, ps, emote>>

\* BTN_SIDE and BTN_EXTRA are written as buttons 8 and 9 (lines 145-165).
SideButtons == {DefaultBindings.macro_button, DefaultBindings.macro_alt_button}

\* One step of the capture thread.
CapStep ==
    \/ CapWake
    \/ CapTarget
    \/ CapSettle
    \/ CapEvdev(SideButtons)
    \/ CapWrite("evdev_write", "escape")
    \/ CapEscape
    \/ CapKeys
    \/ CapWrite("key_write", "mouse")
    \/ CapMouse
    \/ CapWrite("mouse_write", "update")
    \/ CapUpdate

\* keybind_button and mouse_button_slider (lines 388-390, 419-421): a click
\* on a Set button arms the capture; MacroApp::update holds the lock of the
\* configuration around it (line 518).
GuiArm(targets) ==
    /\ cfg_lock = "none"
    /\ \E t \in targets : t # capture_target /\ capture_target' = t
    /\ UNCHANGED <<stateVars, config, envVars, monVars, pollVars, exec, burst, histVars,
                   probe_env, cap, cfg_lock, lk, target_lock, ps, emote>>

\* ------------------------------------------------------------ CaptureSpec
\* The capture thread with the user at the keyboard, the mouse and the Set
\* buttons. A capture is armed while fewer than MaxCaptures binding fields
\* differ from the defaults.
CapKeycodes == {"Q", "LShift", "Escape"}

CapButtons == {3}

Captured == { f \in BindingFields : config[f] # BaseConfig[f] }

\* The capture thread is inside one of its two calls of thread::sleep.
CapSleeping == cap.pc \in {"sleep", "settle"}

\* The thread looks at the keyboard and the mouse once per iteration, right
\* after its sleep: what the user does is taken to happen during the sleeps.
CaptureNext ==
    \/ (CapSleeping /\ EnvKeys(CapKeycodes))
    \/ (CapSleeping /\ EnvMouse(CapButtons))
    \/ (Cardinality(Captured) < MaxCaptures /\ GuiArm(CaptureTargets))
    \/ CapStep

\* The capture thread does not look at the foreground window.
CaptureStart == Init /\ foreground = TRUE

CaptureSpec == CaptureStart /\ [][CaptureNext]_vars

\* --------------------------------------------------------------- LockSpec
\* The statements of each task of main.rs that lock the configuration or
\* wait, in program order: op, the line of the statement, and the
\* statements that can follow it. A MutexGuard that is a temporary of
\* `config.lock().unwrap().clone()` is dropped at the end of that statement.
Node(op, line, next) == [ op |-> op, line |-> line, next |-> next ]

\* The input monitoring loop with the guard kept in a variable of the loop body.
PollerLocksHoldingGuard ==
    << Node("Lock", 467, {2}), Node("Unlock", 467, {3}),
       Node("Lock", 493, {4, 5}), Node("Sleep", 501, {5}),
       Node("Unlock", 555, {6}), Node("Sleep", 555, {3}) >>

\* run_macro: the snapshot of line 467, then the input monitoring loop: the
\* snapshot of line 493, the debounce of line 501 when F11 is down, and
\* the adaptive sleep of line 555.
PollerLocks ==
    << Node("Lock", 467, {2}), Node("Unlock", 467, {3}),
       Node("Lock", 493, {4}), Node("Unlock", 493, {5, 6}),
       Node("Sleep", 501, {6}), Node("Sleep", 555, {3}) >>

\* contagion_loop: the test of line 383, the snapshot of line 385, the
\* calls of precise_sleep in execute_contagion_sequence (lines 326-371,
\* none when running is false at line 317), the loop delay of line 396,
\* and the snapshot of line 400 before the thread ends; a later press
\* starts a new thread.
ExecutorLocks ==
    << Node("Test", 383, {2, 6}),
       Node("Lock", 385, {3}), Node("Unlock", 385, {4, 5}),
       Node("Sleep", 326, {5}), Node("Sleep", 396, {1}),
       Node("Lock", 400, {7}), Node("Unlock", 400, {1}) >>

\* execute_rapid_click: the snapshot of line 424 and the click delay of
\* line 436; a later press starts a new burst.
BurstLocks ==
    << Node("Lock", 424, {2}), Node("Unlock", 424, {1, 3}), Node("Sleep", 436, {1}) >>

\* MacroApp::update holding the guard of capture_target taken at line 432
\* until the end of the frame.
GuiLocksHoldingTarget ==
    << Node("LockTarget", 432, {2}),
       Node("Lock", 518, {3}), Node("Unlock", 574, {4}),
       Node("UnlockTarget", 574, {1}) >>

\* gui.rs, MacroApp::update, one frame: the read of capture_target (432);
\* Escape among the egui events (455) or a key captured from them, written
\* under the configuration lock (493-503); then the panel, drawn under the
\* configuration lock (518-574) with the reads of capture_target in
\* keybind_button and mouse_button_slider (370, 401), the arming by a
\* click (389, 420) and the read of line 566. Each guard of capture_target
\* is a temporary of its statement.
GuiLocks ==
    << Node("LockTarget", 432, {2}), Node("UnlockTarget", 432, {3, 5, 9}),
       Node("LockTarget", 455, {4}), Node("UnlockTarget", 455, {9}),
       Node("Lock", 493, {6}), Node("LockTarget", 502, {7}),
       Node("UnlockTarget", 502, {8}), Node("Unlock", 503, {9}),
       Node("Lock", 518, {10}), Node("LockTarget", 370, {11}),
       Node("UnlockTarget", 370, {10, 12, 14}), Node("LockTarget", 389, {13}),
       Node("UnlockTarget", 389, {10, 14}), Node("LockTarget", 566, {15}),
       Node("UnlockTarget", 566, {16}), Node("Unlock", 574, {1}) >>

\* gui.rs, the capture thread, one loop iteration: the sleep of line 96,
\* the read of capture_target (104), the settling sleep of a new capture
\* (124), and the writes, each under the configuration lock with
\* capture_target reset inside it: a side button from evdev (147-157,
\* 160-170, once per event), a key (263-283), a mouse button (324-346);
\* Escape resets capture_target without the configuration lock (238).
CaptureLocks ==
    << Node("Sleep", 96, {2}),
       Node("LockTarget", 104, {3}), Node("UnlockTarget", 104, {1, 4, 5, 9, 11, 15}),
       Node("Sleep", 124, {1}),
       Node("Lock", 147, {6}), Node("LockTarget", 155, {7}),
       Node("UnlockTarget", 155, {8}), Node("Unlock", 157, {1, 5, 9, 15}),
       Node("LockTarget", 238, {10}), Node("UnlockTarget", 238, {1}),
       Node("Lock", 263, {12}), Node("LockTarget", 281, {13}),
       Node("UnlockTarget", 281, {14}), Node("Unlock", 283, {1}),
       Node("Lock", 324, {16}), Node("LockTarget", 344, {17}),
       Node("UnlockTarget", 344, {18}), Node("Unlock", 346, {1}) >>

LockProgram(t) ==
    CASE t = "poller" -> PollerLocks
      [] t = "executor" -> ExecutorLocks
      [] t = "burst" -> BurstLocks
      [] t = "capture" -> CaptureLocks
      [] t = "gui" -> GuiLocks

\* The statement task t is at.
AtNode(t) == LockProgram(t)[lk[t]]

\* Task t executes the statement it is at; Mutex::lock blocks while
\* another task holds the guard.
LockStep(t) ==
    /\ \E n \in AtNode(t).next : lk' = [lk EXCEPT ![t] = n]
    /\ CASE AtNode(t).op = "Lock" ->
                cfg_lock = "none" /\ cfg_lock' = t /\ UNCHANGED target_lock
         [] AtNode(t).op = "Unlock" ->
                cfg_lock' = "none" /\ UNCHANGED target_lock
         [] AtNode(t).op = "LockTarget" ->
                target_lock = "none" /\ target_lock' = t /\ UNCHANGED cfg_lock
         [] AtNode(t).op = "UnlockTarget" ->
                target_lock' = "none" /\ UNCHANGED cfg_lock
         [] OTHER -> UNCHANGED <<cfg_lock, target_lock>>
    /\ UNCHANGED <<stateVars, config, envVars, monVars, pollVars, exec, burst, histVars,
                   probe_env, capture_target, cap, ps, emote>>

LockKeycodes == {"Q"}

LockTargets == {"MeleeKey", "MacroButton"}

LockNext ==
    \/ (CapSleeping /\ EnvKeys(LockKeycodes))
    \/ (CapSleeping /\ EnvMouse(CapButtons))
    \/ (Captured = {} /\ GuiArm(LockTargets))
    \/ CapStep
    \/ \E t \in LockTasks : LockStep(t)

LockSpec == Init /\ [][LockNext]_vars

\* ---------------------------------------------------------- RoundTripSpec
\* The capture thread with keys of both kinds: Q has an arm of its own in
\* keycode_to_string and in keycode_from_string, Enter has none.
RoundTripKeycodes == {"Q", "Enter"}

RoundTripNext ==
    \/ (CapSleeping /\ EnvKeys(RoundTripKeycodes))
    \/ (CapSleeping /\ EnvMouse(CapButtons))
    \/ (Cardinality(Captured) < MaxCaptures /\ GuiArm(LockTargets))
    \/ CapStep

RoundTripSpec == CaptureStart /\ [][RoundTripNext]_vars

\* -------------------------------------------------------------- OrderSpec
\* Every task that takes a lock, each through its lock statements: the
\* tasks of main.rs, the capture thread and MacroApp::update.
OrderNext == \E t \in OrderTasks : LockStep(t)

OrderSpec == Init /\ [][OrderNext]_vars

\* -------------------------------------------------------------- TimerSpec
\* precise_sleep, one call after the other, against a clock that advances.
\* Duration::as_millis: whole milliseconds, the rest dropped.
as_millis(d) == d \div TicksPerMs

from_millis(ms) == ms * TicksPerMs

\* Duration::saturating_sub
saturating_sub(a, b) == IF a > b THEN a - b ELSE 0

\* thread::sleep is called for every duration of the limit or more.
NeedsSleepInclusive(d) == as_millis(d) >= BusyWaitLimitMs

\* Line 76: duration.as_millis() > 40
NeedsSleep(d) == as_millis(d) > BusyWaitLimitMs

\* Lines 68-73: a zero duration returns at once; otherwise start and target
\* are taken from the clock. The clock of the model starts at 0 at the call.
PsCall ==
    /\ ps.pc = "idle"
    /\ \E d \in 0..from_millis(MaxSleepMs) :
         ps' = IF d = 0
               THEN [ps EXCEPT !.pc = "returned"]
               ELSE [ps EXCEPT !.d = d, !.start = ps.now, !.target = ps.now + d,
                               !.reads = 1,
                               !.pc = IF NeedsSleep(d) THEN "sleep" ELSE "spin"]
    /\ UNCHANGED <<stateVars, config, envVars, monVars, pollVars, exec, burst, histVars,
                   probe_env, capture_target, cap, cfg_lock, lk, target_lock, emote>>

\* Lines 77-80: thread::sleep(duration - 20 ms), which returns when that
\* time or more has passed.
PsSleep ==
    /\ ps.pc = "sleep"
    /\ LET compensation == saturating_sub(ps.d, from_millis(CompensationMs)) IN
       IF compensation # 0
       THEN \E over \in 0..MaxOversleep :
               ps' = [ps EXCEPT !.now = @ + compensation + over,
                                !.slept = Append(@, compensation),
                                !.pc = "spin"]
       ELSE ps' = [ps EXCEPT !.pc = "spin"]
    /\ UNCHANGED <<stateVars, config, envVars, monVars, pollVars, exec, burst, histVars,
                   probe_env, capture_target, cap, cfg_lock, lk, target_lock, emote>>

\* Line 84: while Instant::now() < target; the loop is left on the first
\* reading that is not before the target. reads counts up to 2: the reading
\* of line 72 and one or more of the loop.
PsSpin ==
    /\ ps.pc = "spin"
    /\ ps' = [ps EXCEPT !.reads = IF @ < 2 THEN @ + 1 ELSE @,
                        !.pc = IF ps.now < ps.target THEN "spin" ELSE "returned"]
    /\ ps' # ps
    /\ UNCHANGED <<stateVars, config, envVars, monVars, pollVars, exec, burst, histVars,
                   probe_env, capture_target, cap, cfg_lock, lk, target_lock, emote>>

\* The clock advances while the call is under way.
PsTick ==
    /\ ps.pc \in {"sleep", "spin"}
    /\ ps.now < ps.target + MaxOversleep
    /\ ps' = [ps EXCEPT !.now = @ + 1]
    /\ UNCHANGED <<stateVars, config, envVars, monVars, pollVars, exec, burst, histVars,
                   probe_env, capture_target, cap, cfg_lock, lk, target_lock, emote>>

\* The caller goes on; the next call starts from a fresh record.
PsReturn ==
    /\ ps.pc = "returned"
    /\ ps' = IdlePs
    /\ UNCHANGED <<stateVars, config, envVars, monVars, pollVars, exec, burst, histVars,
                   probe_env, capture_target, cap, cfg_lock, lk, target_lock, emote>>

TimerNext ==
    \/ PsCall
    \/ PsSleep
    \/ PsSpin
    \/ PsTick
    \/ PsReturn

TimerSpec == CaptureStart /\ [][TimerNext]_vars

\* -------------------------------------------------------------- EmoteSpec
\* SharedConfig::emote_preparation_delay (config.rs lines 211-218). An f64
\* is a number of millionths; f64::ln is tabulated for the frame rates of
\* the model, to the nearest millionth.
FpsValues == {30, 60, 61, 144, 160, 300, 12000, 13000}

ManualValues == {1, 100, 500}

ln(fps) ==
    CASE fps = 30 -> 3401197
      [] fps = 60 -> 4094345
      [] fps = 61 -> 4110874
      [] fps = 144 -> 4969813
      [] fps = 160 -> 5075174
      [] fps = 300 -> 5703782
      [] fps = 12000 -> 9392662
      [] fps = 13000 -> 9472705

\* -26.0 * self.fps.ln() + 245.0
FormulaValue(fps) == 245000000 - 26 * ln(fps)

\* f64::max(0.0)
max0(x) == IF x > 0 THEN x ELSE 0

\* A conversion to the nearest whole number.
as_u64_nearest(x) == (x + 500000) \div 1000000

\* `as u64` of a non-negative f64: the fraction is dropped.
as_u64(x) == x \div 1000000

emote_preparation_delay(c) ==
    IF c.use_emote_formula
    THEN as_u64(max0(FormulaValue(c.fps)))
    ELSE c.emote_preparation_delay_manual_ms

\* get_durations_from_config calls the function on a configuration.
EmoteCall ==
    /\ emote.pc = "idle"
    /\ \E fps \in FpsValues, formula \in BOOLEAN, manual \in ManualValues :
         LET c == [emote EXCEPT !.fps = fps, !.use_emote_formula = formula,
                                !.emote_preparation_delay_manual_ms = manual] IN
         emote' = [c EXCEPT !.pc = "done", !.delay = emote_preparation_delay(c)]
    /\ UNCHANGED <<stateVars, config, envVars, monVars, pollVars, exec, burst, histVars,
                   probe_env, capture_target, cap, cfg_lock, lk, target_lock, ps>>

\* The caller goes on; a result of the formula is kept for the next call.
EmoteReturn ==
    /\ emote.pc = "done"
    /\ emote' = [emote EXCEPT !.pc = "idle",
                              !.prev = IF emote.use_emote_formula
                                       THEN << emote.fps, emote.delay >> ELSE @]
    /\ UNCHANGED <<stateVars, config, envVars, monVars, pollVars, exec, burst, histVars,
                   probe_env, capture_target, cap, cfg_lock, lk, target_lock, ps>>

EmoteNext ==
    \/ EmoteCall
    \/ EmoteReturn

EmoteSpec == CaptureStart /\ [][EmoteNext]_vars

\* -------------------------------------------------------------- ProbeSpec
\* is_warframe_active computed from what the platform answers. The
\* circumstances of one call: the platform the program was built for, the
\* outcome of the foreground query ("ok": a decodable answer; "exit_error":
\* the command ran and failed, leaving its output empty; "spawn_error": the
\* command could not be run or, on Windows, a call returned null or no
\* process; "undecodable": the output is not UTF-8), whether the answer
\* contains "warframe", and whether a process named so is listed.
Platforms == {"linux", "windows", "macos", "other"}

Queries == {"ok", "exit_error", "spawn_error", "undecodable"}

ProbeEnvs ==
    { r \in [ platform : Platforms, query : Queries,
              name_matches : BOOLEAN, process_listed : BOOLEAN ] :
        /\ r.name_matches => r.query = "ok"
        /\ r.platform = "windows" => r.query \in {"ok", "spawn_error"}
        /\ r.platform \in {"windows", "macos"} => ~r.process_listed
        /\ r.platform = "other" => (r.query = "spawn_error" /\ ~r.process_listed) }

\* Lines 107-127: the fallback of the Linux build, a scan of the process list.
ProcessListScan(env) == env.process_listed

\* Lines 95-198.
is_warframe_active(env) ==
    CASE env.platform = "linux" ->
           IF env.query = "ok" THEN env.name_matches
           ELSE IF env.query = "exit_error" THEN FALSE
           ELSE ProcessListScan(env)
      [] env.platform = "windows" -> env.query = "ok" /\ env.name_matches
      [] env.platform = "macos" -> env.query = "ok" /\ env.name_matches
      [] OTHER -> TRUE

\* The foreground window could not be determined.
ProbeFailed(env) == env.platform = "other" \/ env.query # "ok"

\* The circumstances of the next call change; the platform is that of the build.
EnvProbe ==
    /\ \E r \in ProbeEnvs :
         /\ r.platform = probe_env.platform
         /\ r # probe_env
         /\ probe_env' = r
         /\ foreground' = is_warframe_active(r)
    /\ UNCHANGED <<stateVars, config, keysDown, mouseDown, monVars, pollVars, exec, burst,
                   histVars, capture_target, cap, cfg_lock, lk, target_lock, ps, emote>>

\* An unknown platform has one circumstance only; the monitor goes on all the same.
ProbeInit ==
    /\ CoreInit({BaseConfig})
    /\ probe_env \in ProbeEnvs
    /\ foreground = is_warframe_active(probe_env)
    /\ CaptureInit /\ LockInit /\ TimerInit /\ EmoteInit

ProbeNext ==
    \/ EnvProbe
    \/ MonProbe
    \/ MonLoad
    \/ MonClear
    \/ SeqPress
    \/ SeqCancel

ProbeSpec == ProbeInit /\ [][ProbeNext]_vars

\* ================================================================ claims
\* Both gates of the sequence trigger are open.
Steady == warframe_active /\ macro_enabled

\* The step is the poller's trigger step (lines 520-542).
TriggerStep == poll_pc = "trigger" /\ poll_pc' = "sample"

\* macro_pressed as the poller computes it in its trigger step.
PolledPressed == MacroPressed(to_keybinds(poll_cfg), poll_mouse)

\* C1: every false->true transition of running happens in a state in which
\* warframe_active and macro_enabled are both true.
C1_RunningSetOnlyWhenGatesOpen ==
    [][(~running /\ running') => (warframe_active /\ macro_enabled)]_vars

\* C2: once the monitor has finished two consecutive iterations that both
\* probed the host as not foregrounded, running is false.
C2_RunningFalseAfterTwoInactiveCycles ==
    inactive_iters >= 2 => ~running

\* C3: while warframe_active and macro_enabled stay true, from the poller's
\* first trigger step on: a press the poller sees turns running from false to
\* true, the release that follows such a press turns it from true to false,
\* and running changes in no other step.
C3_OneEdgePerPressAndRelease ==
    [][(Steady /\ trigger_hist # "none") =>
        /\ (TriggerStep /\ PolledPressed /\ ~last_macro_state) => (~running /\ running')
        /\ (TriggerStep /\ ~PolledPressed /\ last_macro_state /\ trigger_hist = "pressed")
              => (running /\ ~running')
        /\ (running' # running) => (TriggerStep /\ (PolledPressed # last_macro_state))
      ]_vars

\* C4: at most one contagion_loop thread is alive.
C4_AtMostOneExecutor ==
    Cardinality({ e \in Execs : Alive(e) }) <= 1

\* ---- the log of a loop iteration
LastEv(x) == x.log[Len(x.log)]

HasReadFalse(log) == \E i \in 1..Len(log) : log[i] = ReadEv(FALSE)

IsInjection(ev) == ev[1] \in {"Press", "Release"}

\* The injected events of a log and its end-of-sequence delay, in order.
Injected(log) ==
    SelectSeq(log, LAMBDA ev : IsInjection(ev) \/ ev = SleepEv("sequence_end_delay"))

\* The thread is about to run the first statement of the double-jump stage.
AtDoubleJump(x) == x.pc = "script" /\ x.ip = 1

\* The thread is about to run the first statement of the aim+melee stage,
\* of the emote-preparation wait or of the emote taps.
AtLaterStage(x) == x.pc = "script" /\ x.ip \in {7, 13, 14}

\* The thread is about to press the fire button.
AtFireClick(x) == x.pc = "firepress"

\* The thread's latest action was a load of running that returned true.
JustReadTrue(x) == x.log # <<>> /\ LastEv(x) = ReadEv(TRUE)

StraightLine(inp) ==
    << PressEv("jump", inp.jump), ReleaseEv("jump", inp.jump),
       PressEv("jump", inp.jump), ReleaseEv("jump", inp.jump),
       PressEv("aim", inp.aim),
       PressEv("melee", inp.melee), ReleaseEv("melee", inp.melee),
       ReleaseEv("aim", inp.aim),
       PressEv("emote", inp.emote), ReleaseEv("emote", inp.emote),
       PressEv("emote", inp.emote), ReleaseEv("emote", inp.emote) >>

\* The thread is in the rapid-fire loop of its iteration or just behind it.
InRapidFire(x) == x.pc \in {"rfcheck", "firepress", "firerelease", "firesleep"}

\* The thread of an iteration that passed its entry is behind the
\* straight-line part.
PastStraightLine(x) ==
    \/ InRapidFire(x)
    \/ x.pc = "endcheck"
    \/ (x.pc = "loopdelay" /\ x.log[1] = ReadEv(TRUE))

C6_CleanupReleasesAll ==
    \A e \in Execs :
        (exec[e].pc = "return" /\ exec[e].staged) =>
            /\ exec[e].held = {}
            /\ [ i \in 1..Len(exec[e].log) |-> <<exec[e].log[i][1], exec[e].log[i][2]>> ]
                 = << <<"Release", "melee">>, <<"Release", "emote">>,
                      <<"Release", "aim">>, <<"Release", "fire">> >>

\* C6 witness: a thread that ran a stage has finished its cleanup.
C6_Witness ==
    exec[Followed].pc = "return" /\ exec[Followed].staged

\* n fire clicks with the button b.
RECURSIVE FireClicks(_, _)
FireClicks(b, n) ==
    IF n = 0 THEN <<>>
    ELSE << PressEv("fire", b), ReleaseEv("fire", b) >> \o FireClicks(b, n - 1)

\* The number of fire presses in a log.
ClickCount(log) == Len(SelectSeq(log, LAMBDA ev : ev[1] = "Press" /\ ev[2] = "fire"))

\* C7: an iteration in which no load of running returned false has injected
\* two jump taps, aim press, melee tap, aim release, two emote taps, then at
\* least one fire click, then waited the end delay, with the inputs of its
\* snapshot.
C7_FixedOrder ==
    \A e \in Execs :
        LET x == exec[e] IN
        (x.pc = "loopdelay" /\ ~HasReadFalse(x.log)) =>
            /\ ClickCount(x.log) >= 1
            /\ Injected(x.log) =
                  StraightLine(PrecomputedInputs[x.cfg])
                  \o FireClicks(PrecomputedInputs[x.cfg].fire, ClickCount(x.log))
                  \o << SleepEv("sequence_end_delay") >>

\* C7 witness: an iteration under the second set of bindings has ended
\* without a load of running that returned false.
C7_Witness ==
    /\ exec[Followed].pc = "loopdelay"
    /\ ~HasReadFalse(exec[Followed].log)
    /\ exec[Followed].cfg.melee_key = OtherBindings.melee_key

\* C8: in the rapid-fire loop every fire press directly follows a load of
\* running that returned true, no fire press follows a load that returned
\* false, and the loop is left exactly when running is read false or, after a
\* click and its delay, the elapsed time exceeds rapid_fire_duration_ms.
C8_RapidFireLoop ==
    \A e \in Execs :
        LET x == exec[e] IN
        /\ \A i \in 1..Len(x.log) :
              (x.log[i][1] = "Press" /\ x.log[i][2] = "fire") =>
                  (i > 1 /\ x.log[i - 1] = ReadEv(TRUE))
        /\ \A i, j \in 1..Len(x.log) :
              (i < j /\ x.log[i] = ReadEv(FALSE)) => x.log[j][1] # "Press"
        /\ x.pc = "endcheck" =>
              \/ LastEv(x) = ReadEv(FALSE)
              \/ /\ LastEv(x) = SleepEv("rapid_fire_click_delay")
                 /\ x.elapsed > x.cfg.rapid_fire_duration_ms
        /\ (x.pc = "rfcheck" /\ ClickCount(x.log) > 0) =>
              /\ LastEv(x) = SleepEv("rapid_fire_click_delay")
              /\ x.elapsed <= x.cfg.rapid_fire_duration_ms

\* C8 witness: the loop was left after two clicks because running was read false.
C8_Witness ==
    /\ exec[Followed].pc = "endcheck"
    /\ LastEv(exec[Followed]) = ReadEv(FALSE)
    /\ ClickCount(exec[Followed].log) = 2

\* C9: while running is false, a thread inside the rapid-fire loop starts no
\* fire click beyond one whose load of running had already returned true and
\* does not wait the end delay; if running stays false the thread reaches the
\* cleanup, and a thread in the cleanup ends.
C9_CancelledRapidFireEnds ==
    /\ [][\A e \in Execs :
            LET x == exec[e] IN
            (~running /\ x.pc \in {"rfcheck", "firerelease", "firesleep", "endcheck"}) =>
                /\ exec'[e].pc # "firepress"
                /\ ClickCount(exec'[e].log) <= ClickCount(x.log)
                /\ \A i \in 1..Len(exec'[e].log) :
                      exec'[e].log[i] # SleepEv("sequence_end_delay")
         ]_vars
    /\ (InRapidFire(exec[Followed]) /\ ~running)
          ~> (exec[Followed].pc = "cleanup" \/ running)
    /\ (exec[Followed].pc = "cleanup") ~> ~Alive(Followed)

\* C9 witness: running is false while the thread waits the click delay of
\* its first fire click.
C9_Witness ==
    /\ ~running
    /\ exec[Followed].pc = "firesleep"
    /\ ClickCount(exec[Followed].log) = 1

\* C10 as claimed: a burst with a count of at least one that ends while
\* macro_enabled is false has made fewer pairs than its count.
C10_FewerWheneverDisabled ==
    \A b \in Bursts :
        (burst[b].pc = "done" /\ ~macro_enabled /\ burst[b].cfg.rapid_click_count >= 1) =>
            burst[b].clicks < burst[b].cfg.rapid_click_count

\* C10 as amended: a burst never makes more pairs than the count N of its
\* snapshot; it ends with exactly N pairs when every load of macro_enabled
\* before a pair returned true, and with fewer than N exactly when one of
\* those loads returned false. A disable after the last load, or one undone
\* before the next load, does not shorten the burst.
C10_PairsByLoads ==
    \A b \in Bursts :
        LET x == burst[b] IN
        /\ (x.pc \in {"check", "click", "done"}) => x.clicks <= x.cfg.rapid_click_count
        /\ (x.pc = "click") => x.clicks < x.cfg.rapid_click_count
        /\ (x.pc = "done" /\ ~x.read_false) => x.clicks = x.cfg.rapid_click_count
        /\ (x.pc = "done" /\ x.read_false) => x.clicks < x.cfg.rapid_click_count

\* C10 witness: a burst of two has ended after one pair on a load of
\* macro_enabled that returned false.
C10_Witness ==
    \E b \in Bursts :
        /\ burst[b].pc = "done"
        /\ burst[b].read_false
        /\ burst[b].clicks = 1
        /\ burst[b].cfg.rapid_click_count = 2

\* C13: macro_enabled is flipped only for a press of F11 that has not
\* flipped it before.
C13_OneFlipPerPress ==
    [][(macro_enabled' # macro_enabled) => (toggle_hist = "down")]_vars

\* The monitor stands between two iterations.
MonBetweenIterations == mon_pc = "probe"

\* C14: between two monitor iterations warframe_active and last_state both
\* equal the probe result of the latest iteration, and warframe_active
\* changes from false to true only in a step whose probe returns true.
C14_HostActiveIsProbeResult ==
    /\ [](MonBetweenIterations =>
            (warframe_active = current_state /\ last_state = current_state))
    /\ [][(~warframe_active /\ warframe_active') => (mon_pc = "probe" /\ foreground)]_vars

\* C14 witness: two iterations in a row have probed false, the second one
\* through the unchanged branch.
C14_Witness ==
    MonBetweenIterations /\ ~warframe_active /\ ~last_state /\ inactive_iters = 2

\* C15: an iteration of the input monitoring loop that loads warframe_active
\* false resets both edge trackers, spawns no thread and does not write
\* running.
C15_InactiveIterationOnlyResets ==
    [][(poll_pc = "active" /\ poll_pc' # "active" /\ ~warframe_active) =>
          /\ ~last_macro_state' /\ ~last_rapid_click_state'
          /\ exec' = exec /\ burst' = burst
          /\ running' = running
          /\ poll_pc' = "sample"
      ]_vars

\* C15 witness: the loop is about to load warframe_active false with the
\* trigger button sampled down and its tracker set.
C15_Witness ==
    /\ poll_pc = "active" /\ ~warframe_active
    /\ poll_mouse # {} /\ last_macro_state

\* A thread of execute_rapid_click that has stored rapid_clicking = true and
\* has not ended.
InFlight(b) == burst[b].pc \in {"enigo", "check", "click", "done"}

\* C11: at most one rapid-click burst is in flight, and no burst is spawned
\* while rapid_clicking is true.
C11_NoOverlappingBursts ==
    /\ [](Cardinality({ b \in Bursts : InFlight(b) }) <= 1)
    /\ [][rapid_clicking =>
            ~(\E b \in Bursts : burst[b].pc = "idle" /\ burst'[b].pc = "start")]_vars

\* C12: rapid_clicking is true exactly when a burst is in flight.
C12_RapidClickingIffInFlight ==
    /\ (\E b \in Bursts : InFlight(b)) => rapid_clicking
    /\ (\A b \in Bursts : ~BurstAlive(b)) => ~rapid_clicking

\* The thread is inside a loop iteration of contagion_loop, behind its snapshot.
InIteration(x) ==
    x.pc \in {"entry", "script", "rfcheck", "firepress", "firerelease", "firesleep",
              "endcheck", "loopdelay"}

\* C16: the snapshot of an iteration is the shared configuration at its
\* start and does not change during the iteration; every event the
\* iteration injects uses the input its snapshot binds to the role, and the
\* rapid-fire loop is timed by the snapshot's duration limit.
C16_OneSnapshotPerIteration ==
    /\ [](\A e \in Execs :
            LET x == exec[e] IN
            InIteration(x) =>
                /\ \A i \in 1..Len(x.log) :
                      IsInjection(x.log[i]) =>
                          x.log[i][3] = PrecomputedInputs[x.cfg][x.log[i][2]]
                /\ (x.pc = "rfcheck" /\ ClickCount(x.log) > 0) =>
                      x.elapsed <= x.cfg.rapid_fire_duration_ms
                /\ (x.pc = "endcheck" /\ LastEv(x) # ReadEv(FALSE)) =>
                      x.elapsed > x.cfg.rapid_fire_duration_ms)
    /\ [][\A e \in Execs :
            /\ (InIteration(exec[e]) /\ InIteration(exec'[e])) => exec'[e].cfg = exec[e].cfg
            /\ (exec[e].pc = "snapshot" /\ exec'[e].pc = "entry") => exec'[e].cfg = config
         ]_vars

\* C16 witness: the bindings were edited during an iteration that is about
\* to press the melee key.
C16_Witness ==
    /\ exec[Followed].pc = "script" /\ exec[Followed].ip = 9
    /\ exec[Followed].cfg.melee_key # config.melee_key

\* C17: a thread at Enigo::new has injected nothing and started no stage;
\* its next step either enters the loop or ends the thread with nothing
\* done; and every store of running = true by the poller comes with the
\* spawn of a new thread, which starts at Enigo::new.
C17_NoInjectorNoStage ==
    /\ [](\A e \in Execs :
            exec[e].pc = "start" =>
                (exec[e].log = <<>> /\ exec[e].held = {} /\ ~exec[e].staged))
    /\ [][\A e \in Execs :
            (exec[e].pc = "start" /\ exec'[e] # exec[e]) =>
                (exec'[e] = IdleExec \/ exec'[e] = [exec[e] EXCEPT !.pc = "loop"])
         ]_vars
    /\ [][(~running /\ running') =>
            \E e \in Execs : exec[e].pc = "idle" /\ exec'[e].pc = "start"]_vars

\* C17 witness: running is true and no thread is alive: the thread spawned
\* with the store has ended at Enigo::new.
C17_Witness ==
    running /\ mouseDown # {} /\ \A e \in Execs : ~Alive(e)

\* The Keycode listed in KeyCases for the string s.
ListedKey(s) == (CHOOSE k \in KeyCases : k[1] = s)[2]

BoundKey(k) ==
    CASE k = "Space" -> <<"Key", "Space">>
      [] k = "Dot" -> <<"Unicode", ".">>
      [] InSeq(k, UpperLetters) ->
           <<"Unicode", LowerLetters[CHOOSE i \in 1..Len(UpperLetters) : UpperLetters[i] = k]>>
      [] OTHER -> <<"Unicode", k>>

\* The mouse button a configured index stands for (1 left, 2 right, 3 middle).
BoundButton(idx) ==
    <<"Button", CASE idx = 1 -> "Left" [] idx = 2 -> "Right" [] idx = 3 -> "Middle"
                  [] OTHER -> "Other">>

\* The input a snapshot binds to a role.
BoundInput(c, role) ==
    IF role \in {"aim", "fire"}
    THEN BoundButton(to_keybinds(c)[role])
    ELSE BoundKey(to_keybinds(c)[role])

\* C19: every event an iteration injects for a role uses the key or button
\* its snapshot binds to that role.
C19_InjectedInputIsBound ==
    \A e \in Execs :
        LET x == exec[e] IN
        InIteration(x) =>
            \A i \in 1..Len(x.log) :
                IsInjection(x.log[i]) => x.log[i][3] = BoundInput(x.cfg, x.log[i][2])

\* C20: once the process has exited, no thread has left an input pressed.
C20_NothingHeldAfterExit ==
    Exited => \A e \in Execs : exec[e].held = {}

\* C21: warframe_active changes only in a step of background_app_check: its
\* probe step. No step of the input monitoring loop, of a contagion_loop
\* thread, of an execute_rapid_click thread or of the GUI changes it.
C21_OnlyMonitorWritesHostActive ==
    [][(warframe_active' # warframe_active) =>
          /\ mon_pc = "probe"
          /\ warframe_active' = foreground
          /\ <<pollVars, exec, burst, config>>' = <<pollVars, exec, burst, config>>
      ]_vars

\* C21 witness: warframe_active has gone to true and back to false while the
\* followed thread, spawned when it was true, is in its rapid-fire loop.
C21_Witness ==
    ~warframe_active /\ InRapidFire(exec[Followed])

\* C22: a thread of execute_rapid_click ends only from Enigo::new failing
\* or from behind its loop (left by the count or by a load of macro_enabled
\* that returned false), and the step in which it ends stores
\* rapid_clicking = false.
C22_EveryExitClearsRapidClicking ==
    [][\A b \in Bursts :
          (BurstAlive(b) /\ burst'[b].pc = "idle") =>
              /\ burst[b].pc \in {"enigo", "done"}
              /\ rapid_clicking' = FALSE
      ]_vars

\* C22 witness: a burst of two has left its loop after one pair, on a load
\* of macro_enabled that returned false, and is about to end.
C22_Witness ==
    \E b \in Bursts :
        /\ burst[b].pc = "done" /\ burst[b].read_false /\ burst[b].clicks = 1
        /\ rapid_clicking

\* The step is the one in which the input monitoring loop loads
\* warframe_active (lines 505-518 or 543-547).
ActiveStep == poll_pc = "active" /\ poll_pc' # "active"

\* A thread of execute_rapid_click is spawned in the step.
BurstSpawned == \E b \in Bursts : burst[b].pc = "idle" /\ burst'[b].pc = "start"

\* rapid_click_pressed as the loop computes it from its samples.
PolledRapidClick == to_keybinds(poll_cfg).rapid_click \in poll_keys

LoopEndedOnFalse(x) ==
    \E i \in 1..(Len(x.log) - 1) :
        x.log[i] = ReadEv(FALSE) /\ x.log[i + 1][1] \in {"ReadTrue", "ReadFalse"}

\* The end-of-sequence delay has been waited in this iteration.
EndDelayWaited(x) == InSeq(SleepEv("sequence_end_delay"), x.log)

\* C24: past lines 369-372 the end-of-sequence delay has been waited exactly
\* when the load of running after the rapid-fire loop returned true, and it
\* has not been waited when the loop was left on a false load of running.
C24_EndDelayOnlyWhenStillRunning ==
    \A e \in Execs :
        LET x == exec[e] IN
        x.pc = "loopdelay" =>
            /\ EndDelayWaited(x) <=>
                   /\ Len(x.log) > 1
                   /\ LastEv(x) = SleepEv("sequence_end_delay")
                   /\ x.log[Len(x.log) - 1] = ReadEv(TRUE)
            /\ ~EndDelayWaited(x) => LastEv(x) = ReadEv(FALSE)
            /\ LoopEndedOnFalse(x) => ~EndDelayWaited(x)

\* A step of background_app_check that does something.
MonStep == <<mon_pc, last_state, current_state>>' # <<mon_pc, last_state, current_state>>

\* C25: a step of background_app_check changes running only from true to
\* false, and only by the store of line 452, which is reached only in an
\* iteration whose probe returned false after an iteration whose probe
\* returned true, and only after the load of line 451 returned true; no
\* step that sets running to true is a step of background_app_check.
C25_MonitorOnlyClearsRunning ==
    [][/\ (MonStep /\ running' # running) =>
            (mon_pc = "clear" /\ ~running' /\ last_state /\ ~current_state)
       /\ (mon_pc # "clear" /\ mon_pc' = "clear") => (mon_pc = "load" /\ running)
       /\ (mon_pc # "load" /\ mon_pc' = "load") =>
            (mon_pc = "probe" /\ last_state /\ ~foreground)
       /\ (mon_pc = "clear" /\ MonStep) => ~running'
      ]_vars

\* C25 witness: the probe has changed from true to false, running was
\* loaded true and the store of line 452 is next.
C25_Witness == mon_pc = "clear" /\ running /\ last_state /\ ~current_state /\ ~warframe_active

\* C26: whenever the foreground window cannot be determined,
\* is_warframe_active returns false, and an iteration of
\* background_app_check that probes in such circumstances stores false in
\* warframe_active and goes on to its next iteration.
C26_ProbeFailureDegradesToFalse ==
    /\ [](ProbeFailed(probe_env) => ~is_warframe_active(probe_env))
    /\ [][(mon_pc = "probe" /\ ProbeFailed(probe_env)
             /\ (current_state' # current_state \/ warframe_active' # warframe_active))
           => (~warframe_active' /\ mon_pc' \in {"probe", "load"})]_vars

\* C27: a task that holds the lock of the configuration is at the end of the
\* statement that copies the configuration out, or at the write of a
\* captured binding, and no task is inside precise_sleep or thread::sleep
\* while it holds the lock: not the input monitoring loop, contagion_loop,
\* execute_rapid_click, nor the capture thread.
C27_NoLockAcrossWait ==
    /\ \A t \in LockTasks :
          /\ cfg_lock = t => AtNode(t).op = "Unlock"
          /\ AtNode(t).op = "Sleep" => cfg_lock # t
    /\ cfg_lock = "capture" <=> cap.pc \in {"evdev_write", "key_write", "mouse_write"}
    /\ CapSleeping => cfg_lock # "capture"

\* C27 witness: the capture thread holds the lock for a write while the
\* input monitoring loop is in its debounce sleep and contagion_loop waits
\* for the lock.
C27_Witness ==
    /\ cfg_lock = "capture"
    /\ AtNode("poller") = Node("Sleep", 501, {6})
    /\ AtNode("executor").op = "Lock"

\* A step of the capture thread.
CaptureStep == cap' # cap

\* C28: every step of the capture thread leaves running, macro_enabled,
\* warframe_active and rapid_clicking unchanged and changes no field of the
\* configuration other than the binding field of its target, which gets the
\* captured key name or button index; the timing fields and
\* enable_macro_alt stay as they are.
C28_CaptureWritesOnlyBindings ==
    [][CaptureStep =>
         /\ UNCHANGED stateVars
         /\ \A f \in DOMAIN config :
               config'[f] # config[f] =>
                   /\ f \in BindingFields
                   /\ f = TargetField(cap.target)
                   /\ config'[f] = HitValue(cap)
      ]_vars

\* C28 witness: with the rapid-click key as target, Q was pressed while
\* LShift was held; the modifier was skipped, "Q" has just been written and
\* the timing fields are those of the start.
C28_Witness ==
    /\ cap.pc = "mouse"
    /\ cap.target = "RapidClickKey"
    /\ "LShift" \in cap.keys
    /\ config.rapid_click_key = <<"Q">>
    /\ capture_target = "None"
    /\ config.rapid_click_count = BaseConfig.rapid_click_count

\* C29: a call of precise_sleep that has returned has read a clock value
\* of start + d or later; for d = 0 it has returned without reading the
\* clock or sleeping; for d of 40 whole milliseconds or less it has made no
\* call of thread::sleep; for d of more than 40 whole milliseconds it has
\* made exactly one call of thread::sleep, of d - 20 ms, before the busy-wait.
C29_PreciseSleep ==
    /\ ps.pc = "returned" =>
          /\ ps.now >= ps.start + ps.d
          /\ ps.d = 0 => (ps.reads = 0 /\ ps.slept = <<>>)
          /\ ps.d > 0 => ps.reads = 2
          /\ as_millis(ps.d) <= BusyWaitLimitMs => ps.slept = <<>>
          /\ as_millis(ps.d) > BusyWaitLimitMs =>
                ps.slept = << ps.d - from_millis(CompensationMs) >>
    /\ ps.pc = "sleep" => (ps.slept = <<>> /\ as_millis(ps.d) > BusyWaitLimitMs)
    /\ (ps.pc = "spin" /\ as_millis(ps.d) > BusyWaitLimitMs) => Len(ps.slept) = 1

\* C29 witness: a call for 41 ms has returned after one thread::sleep of
\* 21 ms and the busy-wait to the target.
C29_Witness ==
    /\ ps.pc = "returned"
    /\ ps.d = from_millis(BusyWaitLimitMs + 1)
    /\ ps.slept = << from_millis(BusyWaitLimitMs + 1 - CompensationMs) >>
    /\ ps.now >= ps.target

\* The result of a formula-mode call against the results of the call before.
FormulaDone == emote.pc = "done" /\ emote.use_emote_formula

NonIncreasing ==
    (FormulaDone /\ emote.prev # <<>>) =>
        /\ emote.prev[1] <= emote.fps => emote.delay <= emote.prev[2]
        /\ emote.prev[1] >= emote.fps => emote.delay >= emote.prev[2]

ManualReturned ==
    (emote.pc = "done" /\ ~emote.use_emote_formula) =>
        emote.delay = emote.emote_preparation_delay_manual_ms

\* C30 as claimed: in formula mode the result is the whole number of
\* milliseconds nearest to max(0, -26 ln(fps) + 245), is non-increasing in
\* fps and is not below 0; in manual mode it is the manual value.
C30_DelayIsFormulaRounded ==
    /\ FormulaDone =>
          /\ emote.delay \in Nat
          /\ 2 * emote.delay * 1000000 - 1000000 <= 2 * max0(FormulaValue(emote.fps))
          /\ 2 * max0(FormulaValue(emote.fps)) <= 2 * emote.delay * 1000000 + 1000000
    /\ NonIncreasing
    /\ ManualReturned

\* C30 as amended: in formula mode the result is max(0, -26 ln(fps) + 245)
\* with the fraction dropped, is non-increasing in fps and is not below 0;
\* in manual mode it is the manual value.
C30_DelayIsFormulaTruncated ==
    /\ FormulaDone =>
          /\ emote.delay \in Nat
          /\ emote.delay * 1000000 <= max0(FormulaValue(emote.fps))
          /\ max0(FormulaValue(emote.fps)) < (emote.delay + 1) * 1000000
    /\ NonIncreasing
    /\ ManualReturned

\* C30 witness: 138 ms for 60 fps (138.547 before the conversion) after
\* 156 ms for 30 fps.
C30_Witness ==
    /\ FormulaDone
    /\ emote.fps = 60
    /\ emote.delay = 138
    /\ emote.prev = << 30, 156 >>

\* A contagion_loop thread is spawned.
ExecSpawned == \E e \in Execs : ~Alive(e) /\ Alive(e)'

\* The release edge of the trigger as the input monitoring loop sees it.
ReleaseEdge == poll_pc = "trigger" /\ ~PolledPressed /\ last_macro_state

IgnoredPress ==
    /\ TriggerStep
    /\ PolledPressed /\ ~last_macro_state
    /\ running \/ ~macro_enabled

C33_HeldTriggerRestartsAfterFocusReturns ==
    [][/\ (poll_pc = "active" /\ poll_pc' # "active" /\ ~warframe_active) =>
              (~last_macro_state' /\ poll_pc' = "sample")
       /\ (TriggerStep /\ held_hist \in {"reset_started", "reset_ignored"}) =>
              /\ PolledPressed /\ ~last_macro_state
              /\ (macro_enabled /\ ~running) =>
                     (running' /\ ExecSpawned /\ held_hist' = "restarted")
      ]_vars

\* C33 witness: a second sequence runs for a trigger that was never
\* released: it was restarted after the reset of the tracker.
C33_Witness ==
    /\ held_hist = "restarted"
    /\ running /\ warframe_active /\ macro_enabled
    /\ \E e \in Execs : Alive(e)
    /\ toggle_hist = "up"


\* The Err arm of Enigo::new in some contagion_loop thread.
StartFailed == \E e \in Execs : exec[e].pc = "start" /\ exec'[e] = IdleExec

\* C34: the step in which contagion_loop fails to create its Enigo changes
\* none of running, macro_enabled, warframe_active and rapid_clicking;
\* running goes from true to false only by the release edge of the trigger
\* or by the focus loss seen by background_app_check, and never because a
\* thread ended; and no step spawns contagion_loop while running is true.
C34_FailedStartLeavesFlags ==
    [][/\ StartFailed => UNCHANGED stateVars
       /\ (running /\ ~running') => (mon_pc = "clear" \/ ReleaseEdge)
       /\ ExecSpawned => (~running /\ running')
      ]_vars

\* C34 witness: running is true and no contagion_loop thread is alive,
\* which only a failed Enigo::new leaves behind, and the poller is about to
\* look at a press it has not tracked.
C34_Witness ==
    /\ running /\ NoExecAlive
    /\ macro_enabled /\ warframe_active
    /\ poll_pc = "trigger" /\ PolledPressed /\ ~last_macro_state


\* The statements at which a contagion_loop thread loads running next:
\* lines 383, 317, 358 and 369.
ReadPoints == {"loop", "entry", "rfcheck", "endcheck"}

\* In the log, every press before position i has its release before i.
ReleasedBefore(log, i) ==
    \A j \in 1..(i - 1) :
        log[j][1] = "Press" =>
            \E k \in (j + 1)..(i - 1) : log[k][1] = "Release" /\ log[k][3] = log[j][3]

\* C35: a contagion_loop thread that is about to load running (at the loop
\* condition, at the entry of execute_contagion_sequence, at a rapid-fire
\* check, at the end-delay check) holds no input pressed, and every press
\* it injected before one of its loads of running was released before
\* that load.
C35_NothingHeldAtReads ==
    \A e \in Execs :
        /\ exec[e].pc \in ReadPoints => exec[e].held = {}
        /\ \A i \in 1..Len(exec[e].log) :
               exec[e].log[i][2] = "running" => ReleasedBefore(exec[e].log, i)

\* C35 witness: the thread has pressed and released the jump, aim, melee and
\* emote inputs and clicked fire, and is at the end-delay check.
C35_Witness ==
    /\ exec[Followed].pc = "endcheck"
    /\ exec[Followed].held = {}
    /\ \E i \in 1..Len(exec[Followed].log) :
           exec[Followed].log[i][1] = "Press" /\ exec[Followed].log[i][2] = "fire"
    /\ \E i \in 1..Len(exec[Followed].log) :
           exec[Followed].log[i][1] = "Press" /\ exec[Followed].log[i][2] = "aim"


\* The place in the log of an iteration of the first load of running in the
\* rapid-fire loop: after the load at the entry and the straight-line part.
FirstRfRead == Len(Script) + 2

\* C36: when the first load of running in the rapid-fire loop returned
\* true, the thread has pressed and released fire and waited the click
\* delay right after it, before any comparison of the elapsed time, so an
\* iteration that has left the loop has clicked at least once, whatever
\* rapid_fire_duration_ms is.
C36_AtLeastOneClick ==
    \A e \in Execs :
        LET x == exec[e] IN
        (x.pc \in {"endcheck", "loopdelay"} /\ Len(x.log) >= FirstRfRead
            /\ x.log[FirstRfRead] = ReadEv(TRUE)) =>
            /\ ClickCount(x.log) >= 1
            /\ Len(x.log) >= FirstRfRead + 3
            /\ x.log[FirstRfRead + 1][1] = "Press" /\ x.log[FirstRfRead + 1][2] = "fire"
            /\ x.log[FirstRfRead + 2][1] = "Release" /\ x.log[FirstRfRead + 2][2] = "fire"
            /\ x.log[FirstRfRead + 3] = SleepEv("rapid_fire_click_delay")

\* C36 witness: with rapid_fire_duration_ms = 0 the loop was left by the
\* time comparison after exactly one click.
C36_Witness ==
    /\ exec[Followed].pc = "endcheck"
    /\ exec[Followed].cfg.rapid_fire_duration_ms = 0
    /\ ClickCount(exec[Followed].log) = 1
    /\ LastEv(exec[Followed]) = SleepEv("rapid_fire_click_delay")


\* C37: a step that changes warframe_active or running leaves every
\* execute_rapid_click thread where it is; the head of the for loop goes on
\* to the next click exactly when clicks remain and macro_enabled is read
\* true, whatever warframe_active and running are; a click is followed by
\* the head of the loop; and a thread that has left the loop has done all
\* rapid_click_count clicks unless it read macro_enabled false.
C37_BurstIgnoresFocus ==
    [][/\ (warframe_active' # warframe_active \/ running' # running) => burst' = burst
       /\ \A b \in Bursts :
            /\ (burst[b].pc = "check" /\ burst'[b].pc # "check") =>
                   (burst'[b].pc = "click" <=>
                       (burst[b].i < burst[b].cfg.rapid_click_count /\ macro_enabled))
            /\ (burst[b].pc = "click" /\ burst'[b].pc # "click") =>
                   (burst'[b].pc = "check" /\ burst'[b].clicks = burst[b].clicks + 1)
            /\ burst[b].pc = "done" =>
                   (burst[b].clicks = burst[b].cfg.rapid_click_count \/ burst[b].read_false)
      ]_vars

\* C37 witness: the monitor has stored warframe_active = false in two
\* iterations running, macro_enabled is true, and a burst is past its first
\* click and about to do the next one.
C37_Witness ==
    /\ ~warframe_active /\ inactive_iters = 2
    /\ macro_enabled
    /\ \E b \in Bursts :
           burst[b].pc = "click" /\ burst[b].clicks >= 1 /\ ~burst[b].read_false


\* Task t is at a lock statement whose Mutex another guard holds.
Waiting(t) ==
    \/ AtNode(t).op = "Lock" /\ cfg_lock # "none"
    \/ AtNode(t).op = "LockTarget" /\ target_lock # "none"

\* The task that holds the Mutex task t is about to lock.
HolderFor(t) == IF AtNode(t).op = "Lock" THEN cfg_lock ELSE target_lock

\* Task t can execute the statement it is at.
Proceeds(t) == ~Waiting(t)

\* C38: a task that holds the guard of capture_target is at the end of the
\* statement that took it and so requests no other lock; the guard of
\* capture_target is requested while the configuration is held only in
\* that order; and a task that waits for a Mutex waits for a task that
\* can execute its next statement, or for one that in turn waits for such
\* a task (there are two locks), so no set of tasks waits in a circle.
C38_LockOrder ==
    \A t \in OrderTasks :
        /\ target_lock = t => AtNode(t).op = "UnlockTarget"
        /\ (AtNode(t).op = "Lock" /\ target_lock = t) => FALSE
        /\ Waiting(t) => Proceeds(HolderFor(t)) \/ Proceeds(HolderFor(HolderFor(t)))

\* C38 witness: the capture thread holds the configuration and requests
\* capture_target, whose guard MacroApp::update holds, while the input
\* monitoring loop waits for the configuration.
C38_Witness ==
    /\ cfg_lock = "capture" /\ AtNode("capture").op = "LockTarget"
    /\ target_lock = "gui"
    /\ AtNode("poller").op = "Lock"


\* A step of the capture thread that writes the configuration.
CaptureWrites == CaptureStep /\ config' # config

\* The write goes to the field capture_target names, and capture_target is
\* None after it.
WritesTargetField ==
    /\ capture_target # "None"
    /\ \A f \in DOMAIN config : f # TargetField(capture_target) => config'[f] = config[f]
    /\ capture_target' = "None"

\* The capture thread sees a press edge of Escape.
EscapeEdge ==
    /\ CaptureStep
    /\ cap.pc = "escape" /\ "Escape" \in cap.keys /\ "Escape" \notin cap.last_keys

\* What was pressed when the capture began, and has been since, is not
\* taken for a new press: a new capture records the keys and buttons that
\* are down, a recorded one that is still down stays recorded, and the
\* value written comes from a key or button that is not recorded.
HeldNotCaptured ==
    /\ (cap.pc = "target" /\ cap'.pc = "settle") =>
           (cap'.last_keys = keysDown /\ cap'.last_mouse_buttons = mouseDown)
    /\ (cap.capture_started /\ cap'.capture_started) =>
           /\ (cap.last_keys \cap keysDown) \subseteq cap'.last_keys
           /\ (cap.last_mouse_buttons \cap mouseDown) \subseteq cap'.last_mouse_buttons
    /\ (cap.pc = "keys" /\ cap'.pc = "key_write") =>
           \E k \in keysDown \ cap.last_keys : cap'.hit = keycode_to_string(k)
    /\ (cap.pc = "mouse" /\ cap'.pc = "mouse_write") =>
           \E b \in mouseDown \ cap.last_mouse_buttons : cap'.hit = << b >>

\* C39: a step of the capture thread that writes the configuration writes
\* the field capture_target names and leaves capture_target None; a press
\* edge of Escape sets capture_target to None and leaves the configuration
\* as it is; while capture_target is None the capture thread writes
\* nothing to the configuration; and a key or button held since the
\* capture began is not captured.
C39_CaptureStateMachine ==
    [][/\ CaptureWrites => WritesTargetField
       /\ EscapeEdge => (capture_target' = "None" /\ config' = config)
       /\ (CaptureStep /\ capture_target = "None") => config' = config
       /\ CaptureStep => HeldNotCaptured
      ]_vars


\* The Keycode to_keybinds binds for the key target t.
BoundFor(kb, t) ==
    CASE t = "MeleeKey" -> kb.melee
      [] t = "JumpKey" -> kb.jump
      [] t = "EmoteKey" -> kb.emote
      [] t = "RapidClickKey" -> kb.rapid_click

\* C40: when the capture thread stores the name of a newly pressed key that
\* is not a modifier, keycode_from_string of the stored name is that key:
\* to_keybinds of the configuration it has written binds the key that was
\* pressed.
C40_KeyNamesRoundTrip ==
    [][(cap.pc = "key_write" /\ cap'.pc # "key_write") =>
          \E k \in NewKeys(cap) :
              /\ cap.hit = keycode_to_string(k)
              /\ keycode_from_string(keycode_to_string(k)) = k
              /\ BoundFor(to_keybinds(config'), cap.target) = k
      ]_vars

====
